---- MODULE Spec2Model ----
(***************************************************************************)
(* State-machine model of the caption-maker service.                       *)
(*                                                                         *)
(* Subsystems, each with its own specification over the shared variables:  *)
(*   SpecHub    - the SSE stream hub (SSEManager): connection registry,    *)
(*                non-reentrant lock, reader loops, inactivity reaper      *)
(*   SpecStream - one asynchronous caption request: background worker,     *)
(*                pipeline stages, SSE callbacks, reader loop, temp file   *)
(*   SpecAdmit  - the admission counter of the synchronous endpoint and    *)
(*                the unguarded asynchronous endpoint                     *)
(*   SpecLoad   - lazy loading of the CLIP embedding model                 *)
(*   SpecImport - per-country data import on first sight of a country      *)
(***************************************************************************)
EXTENDS Integers, Sequences, FiniteSets, TLC

(***************************************************************************)
(* Bounds of the model                                                     *)
(***************************************************************************)
MaxConns == 3
MaxTime == 2
MaxEmptyPolls == 1
NumHandlers == 6
MaxAsync == 1
MaxDrift == 1
NumLoaders == 3
MaxLoads == 2
AutoUnloadAfter == 2
MaxLoadClock == 3
MaxMillis == 2
MaxHandles == 3
MaxQueries == 2
MaxRequestsPerCountry == 2
MaxLookups == 2
MaxGeoClock == 32
MaxEnrichCalls == 3
MaxOllamaCalls == 2
MaxImages == 3
MaxConfigEdits == 2
CacheMaxSize == 2
CacheDefaultTtl == 2
MaxCacheClock == 2
MaxCacheOps == 4
MaxCaptionInput == 5
MaxCaptionLength == 3
MaxSentencesIfTooLong == 2

(***************************************************************************)
(* Program constants                                                       *)
(***************************************************************************)
MAX_CONCURRENT_REQUESTS == 5
HeartbeatEvery == 30

RequestIds == {"A", "B"}
Readers == {"r1", "r2"}
ReaderKinds == {"handler", "route"}
WorkerKinds == {"handler", "legacy"}
ReapThresholds == {0, 1}
Free == "free"
ReaperId == "reaper"

VARIABLES
    sse,          \* SSEManager: connections map, connection objects, stats
    lock,         \* holder of SSEManager.lock (threading.Lock), or Free
    now,          \* wall clock, seconds
    reader,       \* per reader loop: position and locals of event_stream()
    out,          \* per reader loop: the SSE events written to the client
    reaper,       \* the thread running cleanup_inactive_connections
    worker,       \* per request id: the background worker thread
    emitted,      \* per request id: events the worker handed to the hub
    tempFiles,    \* temp image files present on disk
    active_requests, \* routes.active_requests
    handler,      \* per sync handler thread: position in generate_caption
    asyncRunning, \* number of background workers spawned and not finished
    genCache,     \* request cache: per key, the style of the stored result
    clip,         \* DuplicateDetectionService model state
    loader,       \* per thread: position in _load_model_if_needed
    unloader,     \* the threading.Timer thread running _auto_unload
    country_imports, \* rows of the country_imports table, per country code
    importer,     \* per country: position of ensure_data_for_location
    geoSvc,       \* GeoService: db handle, cache, _last_external_request
    lk,           \* per lookup thread: position and locals of get_location_info
    geoClock,     \* time.time() as seen by the geo service, in tenths of a second
    nominatimLog, \* requests sent to the Nominatim reverse-geocoding API
    travel,       \* TravelEnricher: travel_model, _tested_models
    enrich,       \* the current TravelEnricher.enrich call
    ollama,       \* the current OllamaClient.call_with_retry call
    dup,          \* one DuplicateDetectionService.find_duplicates call
    aicfg,        \* AIConfig: the YAML file, _config, and the threads reading it
    cacheMgr,     \* CacheManager: cache, access_order, stats, and its clock
    cleaner,      \* one AIConfig.clean_caption call and the call on its result
    saver,        \* ImageProcessor: its millisecond clock, the files of its
                  \* temp directory, and the requests saving an image
    geoDb         \* GeoService.connection and .cursor as objects, the
                  \* handles closed so far, and the lookups using them

vars == << sse, lock, now, reader, out, reaper, worker, emitted, tempFiles,
           active_requests, handler, asyncRunning, genCache, clip, loader,
           unloader,
           country_imports, importer, geoSvc, lk, geoClock, nominatimLog,
           travel, enrich, ollama, dup, aicfg, cacheMgr, cleaner,
           saver, geoDb >>

hubVars == << sse, lock, now, reader, out, reaper >>
workerVars == << worker, emitted, tempFiles >>
admitVars == << active_requests, handler, asyncRunning, genCache >>
loadVars == << clip, loader, unloader >>
importVars == << country_imports, importer >>
geoVars == << geoSvc, lk, geoClock, nominatimLog >>
coreVars == << hubVars, workerVars, admitVars, loadVars, importVars >>
travelVars == << travel, enrich >>
utilVars == << aicfg, cacheMgr, cleaner, saver, geoDb >>
extVars == << geoVars, travelVars, ollama, dup, utilVars >>
notGeoVars == << coreVars, travelVars, ollama, dup, utilVars >>
notTravelVars == << coreVars, geoVars, ollama, dup, utilVars >>
notOllamaVars == << coreVars, geoVars, travelVars, dup, utilVars >>
notDupVars == << coreVars, geoVars, travelVars, ollama, utilVars >>
servicesVars == << coreVars, geoVars, travelVars, ollama, dup >>
notConfigVars == << servicesVars, cacheMgr, cleaner, saver, geoDb >>
notCacheVars == << servicesVars, aicfg, cleaner, saver, geoDb >>
notCleanVars == << servicesVars, aicfg, cacheMgr, saver, geoDb >>
notSaverVars == << servicesVars, aicfg, cacheMgr, cleaner, geoDb >>
notGeoDbVars == << servicesVars, aicfg, cacheMgr, cleaner, saver >>

(***************************************************************************)
(* Events                                                                  *)
(***************************************************************************)
Ev(e, tag, n) == [event |-> e, tag |-> tag, n |-> n]

EvConnected == Ev("connected", "", 0)
EvHeartbeat == Ev("heartbeat", "", 0)
EvProgress(step, pct) == Ev("progress", step, pct)
EvPartial(type) == Ev("partial", type, 0)
EvWarning(code) == Ev("warning", code, 0)
EvError(error_type) == Ev("error", error_type, 0)
EvComplete == Ev("complete", "success", 0)

IsTerminal(ev) == ev.event \in {"complete", "error"}

RECURSIVE CountTerminal(_)
CountTerminal(s) ==
    IF s = << >> THEN 0
    ELSE (IF IsTerminal(Head(s)) THEN 1 ELSE 0) + CountTerminal(Tail(s))

HasEvent(s, e) == \E i \in 1..Len(s) : s[i].event = e

(***************************************************************************)
(* SSEConnection and SSEManager (utils/sse_manager.py)                     *)
(***************************************************************************)
NewConnection(rid, t) ==
    [request_id |-> rid, queue |-> << >>, last_activity |-> t,
     is_active |-> TRUE]

\* SSEConnection.send_message: enqueue only while the connection is active
SendMessage(c, ev, t) ==
    IF c.is_active
    THEN [c EXCEPT !.queue = Append(@, ev), !.last_activity = t]
    ELSE c

\* SSEConnection.close: deactivate and drain the queue
CloseConn(c) == [c EXCEPT !.is_active = FALSE, !.queue = << >>]

InitSSE ==
    [connections |-> [rid \in RequestIds |-> 0],
     objs |-> << >>,
     total_connections |-> 0,
     messages_sent |-> 0]

\* body of SSEManager.create_connection after the existing-connection check
RegisterConnection(s, rid, t) ==
    [s EXCEPT !.objs = Append(@, NewConnection(rid, t)),
              !.connections[rid] = Len(s.objs) + 1,
              !.total_connections = @ + 1]

\* body of SSEManager.close_connection, under the lock
RemoveConnection(s, rid) ==
    IF s.connections[rid] # 0
    THEN [s EXCEPT !.objs[s.connections[rid]] = CloseConn(@),
                   !.connections[rid] = 0]
    ELSE s

\* body of SSEManager.send_event, under the lock: an unknown id is dropped
SendEvent(s, rid, ev, t) ==
    IF s.connections[rid] # 0
    THEN [s EXCEPT !.objs[s.connections[rid]] = SendMessage(@, ev, t),
                   !.messages_sent = @ + 1]
    ELSE s

\* the to_remove list of cleanup_inactive_connections
InactiveIds(s, t, max_inactive_seconds) ==
    { rid \in RequestIds :
        /\ s.connections[rid] # 0
        /\ t - s.objs[s.connections[rid]].last_activity > max_inactive_seconds }

(***************************************************************************)
(* Initial values of the subsystems                                        *)
(***************************************************************************)
InitReader ==
    [pc |-> "idle", rid |-> "A", kind |-> "handler", conn |-> 0,
     heartbeat_count |-> 0, polls |-> 0, empty_run |-> 0]

InitReaper == [pc |-> "idle", max |-> 0, to_remove |-> {}, stale |-> {}]

InitWorker(kind, img, svc, gps, pc) ==
    [pc |-> pc, kind |-> kind, asset_id |-> "asset1", img |-> img,
     svc |-> svc, gps |-> gps, pending |-> << >>, temp |-> << >>,
     fault |-> FALSE, location_basic |-> FALSE, hashtags |-> FALSE,
     stage_failed |-> FALSE]

HubInit ==
    /\ sse = InitSSE
    /\ lock = Free
    /\ now = 0
    /\ reader = [r \in Readers |-> InitReader]
    /\ out = [r \in Readers |-> << >>]
    /\ reaper = InitReaper

CacheKeys == {"k1"}

AdmitInit ==
    /\ active_requests = 0
    /\ handler = [h \in 1..NumHandlers |-> [pc |-> "idle", key |-> "k1"]]
    /\ asyncRunning = 0
    /\ genCache = [k \in CacheKeys |-> ""]

\* self.last_used = None
NoTime == 0 - 1

\* self.unload_timer = None; otherwise a Timer with its due time and whether
\* it is still waiting (cancel() only stops a timer that is waiting)
NoTimer == [due |-> 0, waiting |-> FALSE]

LoadInit ==
    /\ clip \in [clip_available : BOOLEAN, model_loaded : {FALSE},
                model_loading : {FALSE}, model_loads : {0},
                clip_model : {FALSE}, last_used : {NoTime},
                unload_timer : {NoTimer}, model_unloads : {0}]
    /\ loader = [t \in 1..NumLoaders |-> "idle"]
    /\ unloader = "idle"

Countries == {"FR", "NC", "KH"}

ImportInit ==
    /\ country_imports = [c \in Countries |-> 0]
    /\ importer = [c \in Countries |->
                     [pc |-> "idle", requests |-> 0, imports |-> 0,
                      succeeded |-> FALSE, imports_after |-> 0]]

(***************************************************************************)
(* GeoService state.  Times are tenths of a second; confidence scores are  *)
(* tenths (0.4 is 4), so that sums and comparisons are exact.              *)
(***************************************************************************)
GeoThreads == {"g1"}
GeoKeys == {"k"}
NoLocation == [none |-> TRUE]

\* nominatim_config['rate_limit'] = 1.1
RateLimit == 11
\* cache_ttl = 3600
CacheTtl == 36000
\* the clock value at which the service starts; _last_external_request = 0
\* lies more than the rate limit before it
GeoEpoch == 20

\* GeoLocation(latitude, longitude, search_radius_km) after __post_init__
NewLocation ==
    [formatted_address |-> "", city |-> "",
     geonames_all |-> 0, major_cities |-> 0, cultural_sites |-> {},
     nearby_pois |-> 0, unesco_sites |-> 0, osm_pois |-> 0,
     overpass_pois |-> 0,
     confidence_score |-> 0, data_sources |-> {}]

InitLookup ==
    [pc |-> "idle", key |-> "k", location |-> NewLocation,
     result |-> NoLocation, valid |-> TRUE, raised |-> FALSE,
     dbDown |-> FALSE, lookups |-> 0]

GeoServiceInit(import_available) ==
    [db |-> "none", cache |-> [k \in GeoKeys |-> NoLocation],
     cache_time |-> [k \in GeoKeys |-> 0],
     last_external_request |-> 0,
     import_available |-> import_available]

GeoIdle ==
    /\ geoSvc = GeoServiceInit(TRUE)
    /\ lk = [t \in GeoThreads |-> InitLookup]
    /\ geoClock = GeoEpoch
    /\ nominatimLog = [last |-> -1, minGap |-> RateLimit]

TravelModels == {"primary", "fallback"}

\* TravelEnricher.__init__ and no enrich call under way
TravelInit ==
    /\ travel = [travel_model |-> "none", tested |-> {}]
    /\ enrich = [pc |-> "idle", up |-> [m \in TravelModels |-> FALSE],
                 model |-> "none", result |-> "none", calls |-> 0]

\* no call_with_retry under way
OllamaInit ==
    ollama = [pc |-> "idle", attempt |-> 0, attempts |-> 0,
              retried_after |-> {}, result |-> "none", calls |-> 0]

\* the input of one find_duplicates call: the images (asset id, bytes
\* present, date, whether encode_image returns an embedding for them), for
\* every pair i < j of images whether the cosine similarity of their two
\* embeddings reaches the threshold, the time window, and whether a
\* quality service is configured.  compared records every read of the
\* similarity matrix: the pair of images it was made for, the pair of
\* images whose embeddings the value read belongs to, and whether j joined.
ImageIdx == 1..MaxImages
AssetIds == {"x", "y"}
ImagePairs == { p \in ImageIdx \X ImageIdx : p[1] < p[2] }
\* img['date'] in hours, or NoDate when it is missing or not ISO 8601
NoDate == 0 - 1
Dates == {NoDate, 0, 2}
\* time_window_hours, or NoWindow for None
NoWindow == 0 - 1
Windows == {NoWindow, 0, 1}

DupCall(asset_id, similar, quality_service, encoded, date, window) ==
    [pc |-> "start",
     asset_id |-> asset_id,
     data |-> [i \in ImageIdx |-> TRUE],
     similar |-> similar,
     quality_service |-> quality_service,
     encoded |-> encoded,
     date |-> date,
     time_window_hours |-> window,
     groups |-> << >>,
     compared |-> {},
     quality_score |-> [i \in ImageIdx |-> 0],
     is_primary |-> [i \in ImageIdx |-> FALSE],
     analyzed_on |-> [i \in ImageIdx |-> 0],
     returned |-> [i \in ImageIdx |-> 0 - 1]]

AllEncoded == [i \in ImageIdx |-> TRUE]
SameDates == [i \in ImageIdx |-> 0]

\* no find_duplicates call under way
NoDupCall ==
    [DupCall([i \in ImageIdx |-> "x"], [p \in ImagePairs |-> FALSE],
             FALSE, AllEncoded, SameDates, NoWindow)
     EXCEPT !.pc = "idle"]

DupIdle == dup = NoDupCall

ConfigReaders == {"c1", "c2"}
\* a snapshot of the configuration is named by the revision of the file it
\* was parsed from; DefaultConfig names _get_default_config()
DefaultConfig == 0 - 1
InitConfigReader == [pc |-> "idle", call |-> "none", seen |-> << >>]

\* AIConfig.__init__ on revision 0 of the file
ConfigIdle ==
    aicfg = [file |-> 0, _config |-> 0,
             reader |-> [r \in ConfigReaders |-> InitConfigReader]]

\* CacheManager.__init__: an empty OrderedDict and zeroed statistics.  The
\* cache is the sequence of its entries in OrderedDict order; clock is
\* time.time(); stats.ops counts the calls.  For the properties, used
\* records the keys in order of their last use (a get hit or a set), live
\* the values set and not since deleted, overwritten or evicted, and last
\* what the last operation did.  lock is the holder of self.lock (a
\* threading.Lock) and admin the position of the thread serving the admin
\* cache routes.
NoValue == "None"
InitCacheOp ==
    [op |-> "none", key |-> "none", value |-> NoValue, returned |-> NoValue,
     at |-> 0, full_new |-> FALSE, evicted |-> << >>, used_before |-> << >>]
CacheIdle ==
    cacheMgr = [cache |-> << >>,
                stats |-> [hits |-> 0, misses |-> 0, evictions |-> 0,
                           expirations |-> 0, ops |-> 0],
                clock |-> 0, used |-> << >>, live |-> {},
                last |-> InitCacheOp,
                lock |-> "free", admin |-> "idle"]

\* no clean_caption call under way
CleanIdle ==
    cleaner = [pc |-> "idle", caption |-> << >>, once |-> << >>,
               twice |-> << >>]

SaveThreads == {"s1", "s2"}
SaveAssets == {"a", "b"}
InitSaveCall == [pc |-> "idle", asset_id |-> "a", timestamp |-> 0,
                 path |-> << >>]

\* ImageProcessor.__init__: the temp directory exists, no request under way
SaverIdle ==
    saver = [clock |-> 0, files |-> {},
             call |-> [t \in SaveThreads |-> InitSaveCall]]

DbThreads == {"d1", "d2"}
\* self.connection = None, self.cursor = None
NoHandle == 0
InitDbCall == [pc |-> "idle", mine |-> NoHandle, queries |-> 0,
               ran_on |-> NoHandle, failed |-> FALSE]

\* GeoService.__init__: no connection, no cursor, no lookup under way
GeoDbIdle ==
    geoDb = [connection |-> NoHandle, cursor |-> NoHandle, opened |-> 0,
             closed |-> {}, call |-> [t \in DbThreads |-> InitDbCall]]

UtilIdle == ConfigIdle /\ CacheIdle /\ CleanIdle /\ SaverIdle /\ GeoDbIdle

ExtInit == GeoIdle /\ TravelInit /\ OllamaInit /\ DupIdle /\ UtilIdle

WorkersOff ==
    /\ worker = [rid \in RequestIds |->
                   InitWorker("handler", "ok", TRUE, "none", "off")]
    /\ emitted = [rid \in RequestIds |-> << >>]
    /\ tempFiles = {}

(***************************************************************************)
(* Reader loop: StreamHandler.create_stream.event_stream (kind "handler")  *)
(* and sse_routes.generate_caption_stream.event_stream (kind "route")      *)
(***************************************************************************)

\* sse_manager.create_connection(request_id): takes the lock; when the id is
\* registered it calls close_connection, which takes the same lock again
ReaderOpen(r, rid, kind) ==
    /\ reader[r].pc = "idle"
    /\ lock = Free
    /\ sse.connections[rid] # 0 \/ Len(sse.objs) < MaxConns
    /\ IF sse.connections[rid] # 0
       THEN /\ lock' = r
            /\ reader' = [reader EXCEPT ![r].pc = "close_in_create",
                                        ![r].rid = rid, ![r].kind = kind]
            /\ sse' = sse
       ELSE /\ sse' = RegisterConnection(sse, rid, now)
            /\ reader' = [reader EXCEPT ![r].pc = "start",
                                        ![r].rid = rid, ![r].kind = kind,
                                        ![r].conn = Len(sse.objs) + 1]
            /\ lock' = lock
    /\ UNCHANGED << now, out, reaper >>
    /\ UNCHANGED << workerVars, admitVars, loadVars, importVars, extVars >>

ReaderSkipsConnected(r) ==
    /\ reader[r].pc = "start"
    /\ reader' = [reader EXCEPT ![r].pc = "loop", ![r].heartbeat_count = 0]
    /\ UNCHANGED << sse, lock, now, out, reaper >>
    /\ UNCHANGED << workerVars, admitVars, loadVars, importVars, extVars >>

\* first yield of the generator: the connected event
ReaderConnected(r) ==
    /\ reader[r].pc = "start"
    /\ out' = [out EXCEPT ![r] = Append(@, EvConnected)]
    /\ reader' = [reader EXCEPT ![r].pc = "loop", ![r].heartbeat_count = 0]
    /\ UNCHANGED << sse, lock, now, reaper >>
    /\ UNCHANGED << workerVars, admitVars, loadVars, importVars, extVars >>

\* one iteration of `while connection.is_active` that finds a message
ReaderMessage(r) ==
    /\ reader[r].pc = "loop"
    /\ LET c == sse.objs[reader[r].conn] IN
       /\ c.is_active
       /\ c.queue # << >>
       /\ sse' = [sse EXCEPT !.objs[reader[r].conn].queue = Tail(@)]
       /\ out' = [out EXCEPT ![r] =
                    IF IsTerminal(Head(c.queue)) /\ reader[r].kind = "route"
                    THEN @ \o << Head(c.queue), Head(c.queue) >>
                    ELSE Append(@, Head(c.queue))]
       /\ reader' = [reader EXCEPT ![r].pc =
                       IF IsTerminal(Head(c.queue)) THEN "finally" ELSE "loop",
                                   ![r].empty_run = 0]
    /\ UNCHANGED << lock, now, reaper >>
    /\ UNCHANGED << workerVars, admitVars, loadVars, importVars, extVars >>

\* one iteration whose get_message timed out on an empty queue; empty_run
\* counts the empty polls since the last event written to the client
ReaderEmpty(r) ==
    /\ reader[r].pc = "loop"
    /\ reader[r].polls < MaxEmptyPolls
    /\ LET c == sse.objs[reader[r].conn] IN
       /\ c.is_active
       /\ c.queue = << >>
    /\ IF reader[r].kind = "route"
       THEN /\ out' = [out EXCEPT ![r] = Append(@, EvHeartbeat)]
            /\ reader' = [reader EXCEPT ![r].polls = @ + 1,
                                        ![r].empty_run = 0]
       ELSE IF reader[r].heartbeat_count + 1 >= HeartbeatEvery
            THEN /\ out' = [out EXCEPT ![r] = Append(@, EvHeartbeat)]
                 /\ reader' = [reader EXCEPT ![r].polls = @ + 1,
                                             ![r].empty_run = 0,
                                             ![r].heartbeat_count = 0]
            ELSE /\ out' = out
                 /\ reader' = [reader EXCEPT ![r].polls = @ + 1,
                                             ![r].empty_run = @ + 1,
                                             ![r].heartbeat_count = @ + 1]
    /\ UNCHANGED << sse, lock, now, reaper >>
    /\ UNCHANGED << workerVars, admitVars, loadVars, importVars, extVars >>

\* the loop ends without a terminal event: GeneratorExit at a yield (the
\* client went away) or `connection.is_active` found false
ReaderDisconnect(r) ==
    /\ reader[r].pc = "loop"
    /\ reader' = [reader EXCEPT ![r].pc = "finally"]
    /\ UNCHANGED << sse, lock, now, out, reaper >>
    /\ UNCHANGED << workerVars, admitVars, loadVars, importVars, extVars >>

(***************************************************************************)
(* SSEManager.close_connection(request_id), called from the reader's       *)
(* finally clause, from create_connection and from the reaper.  It needs   *)
(* the lock; threading.Lock is not reentrant, so a caller that already     *)
(* holds the lock waits for itself.                                        *)
(***************************************************************************)
AtCloseConnection(t) ==
    \/ t \in Readers /\ reader[t].pc \in {"finally", "close_in_create"}
    \/ t = ReaperId /\ reaper.pc = "close_in_reap"

CloseConnection(t) ==
    /\ AtCloseConnection(t)
    /\ lock = Free
    /\ IF t \in Readers
       THEN /\ reaper' = reaper
            /\ IF reader[t].pc = "finally"
               THEN /\ sse' = RemoveConnection(sse, reader[t].rid)
                    /\ reader' = [reader EXCEPT ![t].pc = "done"]
               ELSE \* back in create_connection: register the new connection
                    /\ sse' = RegisterConnection(
                                 RemoveConnection(sse, reader[t].rid),
                                 reader[t].rid, now)
                    /\ reader' = [reader EXCEPT ![t].pc = "start",
                                                ![t].conn = Len(sse.objs) + 1]
       ELSE /\ reader' = reader
            /\ LET rid == CHOOSE x \in reaper.to_remove : TRUE IN
               /\ sse' = RemoveConnection(sse, rid)
               /\ reaper' = [reaper EXCEPT
                               !.to_remove = @ \ {rid},
                               !.pc = IF reaper.to_remove = {rid}
                                      THEN "done" ELSE "close_in_reap"]
    /\ lock' = Free
    /\ UNCHANGED << now, out >>
    /\ UNCHANGED << workerVars, admitVars, loadVars, importVars, extVars >>

(***************************************************************************)
(* Reaper: SSEManager.cleanup_inactive_connections (admin cleanup_sse)     *)
(***************************************************************************)
ReapStart(max) ==
    /\ reaper.pc = "idle"
    /\ lock = Free
    /\ LET stale == InactiveIds(sse, now, max) IN
       IF stale = {}
       THEN /\ reaper' = [pc |-> "done", max |-> max, to_remove |-> {},
                          stale |-> {}]
            /\ lock' = lock
       ELSE /\ reaper' = [pc |-> "close_in_reap", max |-> max,
                          to_remove |-> stale, stale |-> stale]
            /\ lock' = ReaperId
    /\ UNCHANGED << sse, now, reader, out >>
    /\ UNCHANGED << workerVars, admitVars, loadVars, importVars, extVars >>

\* the admin request has been answered; another one may follow
ReapReturn ==
    /\ reaper.pc = "done"
    /\ reaper' = InitReaper
    /\ UNCHANGED << sse, lock, now, reader, out >>
    /\ UNCHANGED << workerVars, admitVars, loadVars, importVars, extVars >>

Tick ==
    /\ now < MaxTime
    /\ now' = now + 1
    /\ UNCHANGED << sse, lock, reader, out, reaper >>
    /\ UNCHANGED << workerVars, admitVars, loadVars, importVars, extVars >>

(***************************************************************************)
(* Background worker of an asynchronous caption request.                   *)
(*   kind "handler": CaptionGenerationHandler.process_async                *)
(*   kind "legacy" : sse_routes.process_generation_async                   *)
(* Every broadcast_* call is one send_event under the hub lock; the events *)
(* a stage is about to broadcast wait in `pending` and are sent one by one.*)
(***************************************************************************)
Idle(rid) == worker[rid].pending = << >>

WorkerDone(rid) == worker[rid].pc \in {"finished", "crashed"} /\ Idle(rid)

\* caption_handler._determine_step / the fixed step of the legacy callback
StepOf(kind, step) == IF kind = "handler" THEN step ELSE "processing"

\* sse_callback('result', ...): caption_handler._send_partial_result maps
\* only image_analysis and geolocation; sse_routes goes through
\* SSEManager.broadcast_result, which maps every step
PartialFor(kind, step) ==
    IF kind = "handler"
    THEN IF step \in {"image_analysis", "geolocation"}
         THEN << EvPartial(step) >> ELSE << >>
    ELSE << EvPartial(CASE step = "caption_generation" -> "raw_caption"
                        [] step = "hashtag_generation" -> "hashtags"
                        [] OTHER -> step) >>

\* sse_callback('warning', message, ...)
WarningFor(kind) ==
    IF kind = "handler" THEN EvWarning("MODEL_FALLBACK")
    ELSE EvProgress("warning", -1)

\* `if latitude and longitude` in AIService.generate_caption_async
GpsPresent(gps) == gps = "nonzero"

\* ImageProcessor.save_base64_image names the file asset_id + timestamp
TempPath(asset_id, t) == << asset_id, t >>

\* process_async: broadcast_connected, then _handle_image_preparation up to
\* the image check; process_generation_async: services check, progress
WorkerStart(rid) ==
    /\ worker[rid].pc = "idle"
    /\ IF worker[rid].kind = "handler"
       THEN worker' = [worker EXCEPT
                ![rid].pc = "prep",
                ![rid].pending = << EvConnected, EvProgress("preparation", 5) >>]
       ELSE IF worker[rid].svc
            THEN worker' = [worker EXCEPT
                     ![rid].pc = "prep",
                     ![rid].pending = << EvProgress("preparation", 5) >>]
            \* broadcast_error(request_id, msg) lacks error_type and step:
            \* TypeError, raised again by the except clause; the thread dies
            ELSE worker' = [worker EXCEPT ![rid].pc = "crashed"]
    /\ UNCHANGED << emitted, tempFiles >>
    /\ UNCHANGED << hubVars, admitVars, loadVars, importVars, extVars >>

\* image check and save_base64_image
WorkerMaterialize(rid) ==
    /\ worker[rid].pc = "prep"
    /\ Idle(rid)
    /\ IF worker[rid].img = "ok"
       THEN /\ tempFiles' = tempFiles \cup {TempPath(worker[rid].asset_id, now)}
            /\ worker' = [worker EXCEPT
                   ![rid].temp = TempPath(worker[rid].asset_id, now),
                   ![rid].pending = << EvProgress("preparation", 10) >>,
                   ![rid].pc = IF worker[rid].kind = "handler"
                               THEN "generate" ELSE "vision"]
       ELSE /\ tempFiles' = tempFiles
            /\ IF worker[rid].kind = "handler"
               \* raise ValueError -> except Exception -> broadcast_error
               THEN worker' = [worker EXCEPT
                        ![rid].pending = << EvError("UNKNOWN_ERROR") >>,
                        ![rid].pc = "finished"]
               ELSE worker' = [worker EXCEPT ![rid].pc = "crashed"]
    /\ UNCHANGED emitted
    /\ UNCHANGED << hubVars, admitVars, loadVars, importVars, extVars >>

\* _generate_with_ai_service up to the try block: the service check raises
\* before the try/finally that removes the temp file is entered
WorkerGenerate(rid) ==
    /\ worker[rid].pc = "generate"
    /\ Idle(rid)
    /\ IF worker[rid].svc
       THEN worker' = [worker EXCEPT ![rid].pc = "vision"]
       ELSE worker' = [worker EXCEPT
                ![rid].pending = << EvError("UNKNOWN_ERROR") >>,
                ![rid].pc = "finished"]
    /\ UNCHANGED << emitted, tempFiles >>
    /\ UNCHANGED << hubVars, admitVars, loadVars, importVars, extVars >>

\* ImageAnalyzer.analyze: progress 10, then the result or the silent fallback
WorkerVision(rid, ok) ==
    /\ worker[rid].pc = "vision"
    /\ Idle(rid)
    /\ LET k == worker[rid].kind IN
       worker' = [worker EXCEPT
           ![rid].pc = "geo",
           ![rid].stage_failed = ~ ok,
           ![rid].pending =
               << EvProgress(StepOf(k, "image_analysis"), 10) >> \o
               (IF ok THEN PartialFor(k, "image_analysis") ELSE << >>)]
    /\ UNCHANGED << emitted, tempFiles >>
    /\ UNCHANGED << hubVars, admitVars, loadVars, importVars, extVars >>

\* step 2 of generate_caption_async: geo lookup when GPS is present.  The
\* callback is invoked with 'partial', which neither sse_callback handles.
\* An exception here reaches the except clause of generate_caption_async.
WorkerGeo(rid, raises, hasLocation) ==
    /\ worker[rid].pc = "geo"
    /\ Idle(rid)
    /\ LET k == worker[rid].kind IN
       IF GpsPresent(worker[rid].gps)
       THEN IF raises
            THEN worker' = [worker EXCEPT
                     ![rid].pc = "return",
                     ![rid].fault = TRUE,
                     ![rid].pending =
                         << EvProgress(StepOf(k, "geolocation"), 35) >> \o
                         (IF k = "handler"
                          THEN << EvError("GENERATION_ERROR") >> ELSE << >>)]
            ELSE worker' = [worker EXCEPT
                     ![rid].pc = "travel",
                     ![rid].location_basic = hasLocation,
                     ![rid].pending =
                         << EvProgress(StepOf(k, "geolocation"), 35) >>]
       ELSE /\ ~ raises /\ ~ hasLocation
            /\ worker' = [worker EXCEPT ![rid].pc = "travel"]
    /\ UNCHANGED << emitted, tempFiles >>
    /\ UNCHANGED << hubVars, admitVars, loadVars, importVars, extVars >>

TravelOutcomes == {"ok", "short", "no_model", "error"}

\* step 3: TravelEnricher.enrich, only when location_basic is non-empty
WorkerTravel(rid, outcome) ==
    /\ worker[rid].pc = "travel"
    /\ Idle(rid)
    /\ LET k == worker[rid].kind
           progress == << EvProgress(StepOf(k, "travel_enrichment"), 50) >> IN
       IF worker[rid].location_basic
       THEN worker' = [worker EXCEPT
                ![rid].pc = "caption",
                ![rid].stage_failed = @ \/ outcome = "error",
                ![rid].pending =
                    CASE outcome = "no_model" -> << WarningFor(k) >>
                      [] outcome = "ok" ->
                           progress \o PartialFor(k, "travel_enrichment")
                      [] outcome = "short" -> progress
                      [] OTHER -> progress \o << WarningFor(k) >>]
       ELSE /\ outcome = "short"
            /\ worker' = [worker EXCEPT ![rid].pc = "caption"]
    /\ UNCHANGED << emitted, tempFiles >>
    /\ UNCHANGED << hubVars, admitVars, loadVars, importVars, extVars >>

\* step 5: CaptionGenerator.generate: progress 70, then the result or the
\* silent fallback caption
WorkerCaption(rid, ok) ==
    /\ worker[rid].pc = "caption"
    /\ Idle(rid)
    /\ LET k == worker[rid].kind IN
       worker' = [worker EXCEPT
           ![rid].pc = "complete",
           ![rid].stage_failed = @ \/ ~ ok,
           ![rid].pending =
               << EvProgress(StepOf(k, "caption_generation"), 70) >> \o
               (IF ok THEN PartialFor(k, "caption_generation") ELSE << >>)]
    /\ UNCHANGED << emitted, tempFiles >>
    /\ UNCHANGED << hubVars, admitVars, loadVars, importVars, extVars >>

\* steps 6-7 and callback('complete', ...): caption_handler's callback has
\* no branch for it; the legacy callback calls broadcast_complete(id, data),
\* a TypeError that the except clause answers with callback('error', ...),
\* which raises TypeError again out of generate_caption_async
WorkerComplete(rid, hashtags) ==
    /\ worker[rid].pc = "complete"
    /\ Idle(rid)
    /\ worker' = [worker EXCEPT
           ![rid].pc = "return",
           ![rid].hashtags = hashtags,
           ![rid].fault = (worker[rid].kind = "legacy")]
    /\ UNCHANGED << emitted, tempFiles >>
    /\ UNCHANGED << hubVars, admitVars, loadVars, importVars, extVars >>

\* generate_caption_async has returned or raised: the finally clause removes
\* the temp file; the handler worker sends the final result, the legacy
\* worker's except clause calls broadcast_error with two arguments and dies
WorkerReturn(rid) ==
    /\ worker[rid].pc = "return"
    /\ Idle(rid)
    /\ tempFiles' = tempFiles \ {worker[rid].temp}
    /\ IF worker[rid].kind = "handler"
       THEN worker' = [worker EXCEPT
                ![rid].pc = "finished",
                ![rid].pending =
                    (IF worker[rid].hashtags /\ ~ worker[rid].fault
                     THEN << EvPartial("hashtags") >> ELSE << >>)
                    \o << EvComplete >>]
       ELSE worker' = [worker EXCEPT ![rid].pc = "crashed"]
    /\ UNCHANGED emitted
    /\ UNCHANGED << hubVars, admitVars, loadVars, importVars, extVars >>

\* SSEManager.send_event for the next pending broadcast
WorkerEmit(rid) ==
    /\ worker[rid].pending # << >>
    /\ lock = Free
    /\ sse' = SendEvent(sse, rid, Head(worker[rid].pending), now)
    /\ emitted' = [emitted EXCEPT ![rid] = Append(@, Head(worker[rid].pending))]
    /\ worker' = [worker EXCEPT ![rid].pending = Tail(@)]
    /\ UNCHANGED << lock, now, reader, out, reaper, tempFiles >>
    /\ UNCHANGED << admitVars, loadVars, importVars, extVars >>

(***************************************************************************)
(* Specifications of the streaming subsystems                              *)
(***************************************************************************)
ReaderNext(rds, rids, kinds) ==
    \/ \E r \in rds, rid \in rids, kind \in kinds :
           ReaderOpen(r, rid, kind)
    \/ \E r \in rds : ReaderConnected(r)
    \/ \E r \in rds : ReaderMessage(r)
    \/ \E r \in rds : ReaderEmpty(r)
    \/ \E r \in rds : ReaderDisconnect(r)
    \/ \E t \in rds \cup {ReaperId} : CloseConnection(t)

\* the stream hub under concurrent stream opens, worker emissions whose
\* request carries no image, admin cleanup requests and the passage of time
HubReaderKinds == {"handler"}
HubWorkers == {"A"}

InitHub ==
    /\ HubInit
    /\ worker \in { [rid \in RequestIds |->
                       IF rid \in HubWorkers
                       THEN InitWorker(k, "bad", TRUE, "none", "idle")
                       ELSE InitWorker("handler", "ok", TRUE, "none", "off")] :
                     k \in WorkerKinds }
    /\ emitted = [rid \in RequestIds |-> << >>]
    /\ tempFiles = {}
    /\ AdmitInit /\ LoadInit /\ ImportInit /\ ExtInit

NextHub ==
    \/ ReaderNext(Readers, RequestIds, HubReaderKinds)
    \/ \E max \in ReapThresholds : ReapStart(max)
    \/ ReapReturn
    \/ Tick
    \/ \E rid \in HubWorkers : WorkerStart(rid)
    \/ \E rid \in HubWorkers : WorkerMaterialize(rid)
    \/ \E rid \in HubWorkers : WorkerEmit(rid)

SpecHub == InitHub /\ [][NextHub]_vars

\* one asynchronous caption request "A" with its worker and its streams
StreamIds == {"A"}
StreamReaders == {"r1"}
ImageInputs == {"ok", "bad"}
GpsInputs == {"none", "zero", "nonzero"}

InitStream ==
    /\ HubInit
    /\ worker \in { [rid \in RequestIds |->
                       IF rid \in StreamIds
                       THEN InitWorker(k, img, svc, gps, "idle")
                       ELSE InitWorker("handler", "ok", TRUE, "none", "off")] :
                     k \in WorkerKinds, img \in ImageInputs,
                     svc \in BOOLEAN, gps \in GpsInputs }
    /\ emitted = [rid \in RequestIds |-> << >>]
    /\ tempFiles = {}
    /\ AdmitInit /\ LoadInit /\ ImportInit /\ ExtInit

NextStream ==
    \/ ReaderNext(StreamReaders, StreamIds, ReaderKinds)
    \/ \E rid \in StreamIds : WorkerStart(rid)
    \/ \E rid \in StreamIds : WorkerMaterialize(rid)
    \/ \E rid \in StreamIds : WorkerGenerate(rid)
    \/ \E rid \in StreamIds, ok \in BOOLEAN : WorkerVision(rid, ok)
    \/ \E rid \in StreamIds, raises \in BOOLEAN, hasLocation \in BOOLEAN :
           WorkerGeo(rid, raises, hasLocation)
    \/ \E rid \in StreamIds, outcome \in TravelOutcomes :
           WorkerTravel(rid, outcome)
    \/ \E rid \in StreamIds, ok \in BOOLEAN : WorkerCaption(rid, ok)
    \/ \E rid \in StreamIds, hashtags \in BOOLEAN : WorkerComplete(rid, hashtags)
    \/ \E rid \in StreamIds : WorkerReturn(rid)
    \/ \E rid \in StreamIds : WorkerEmit(rid)

SpecStream == InitStream /\ [][NextStream]_vars

(***************************************************************************)
(* Admission: routes.generate_caption (sync endpoint, one thread per       *)
(* request) and sse_routes.generate_caption_async (spawns a worker)        *)
(***************************************************************************)

\* the check `active_requests >= MAX_CONCURRENT_REQUESTS`; the 429 is
\* returned from inside the try block, so the outer finally still runs
SyncCheck(h) ==
    /\ handler[h].pc = "idle"
    /\ active_requests > - MaxDrift
    /\ handler' = [handler EXCEPT ![h].pc =
                     IF active_requests >= MAX_CONCURRENT_REQUESTS
                     THEN "finally" ELSE "passed"]
    /\ UNCHANGED << active_requests, asyncRunning, genCache >>
    /\ UNCHANGED << hubVars, workerVars, loadVars, importVars, extVars >>

\* active_requests += 1
SyncAdmit(h) ==
    /\ handler[h].pc = "passed"
    /\ active_requests' = active_requests + 1
    /\ handler' = [handler EXCEPT ![h].pc = "validating"]
    /\ UNCHANGED << asyncRunning, genCache >>
    /\ UNCHANGED << hubVars, workerVars, loadVars, importVars, extVars >>

\* the asset id of the request served by handler thread h
SyncAsset(h) == ToString(h)

\* JSON and parameter validation, cache lookup, save_base64_image
SyncValidate(h, valid, key) ==
    /\ handler[h].pc = "validating"
    /\ IF ~ valid
       THEN /\ handler' = [handler EXCEPT ![h].pc = "finally"]
            /\ UNCHANGED << active_requests, tempFiles >>
       ELSE IF genCache[key] # ""
            \* cache hit: decrements, then returns through the finally
            THEN /\ active_requests' = active_requests - 1
                 /\ handler' = [handler EXCEPT ![h].pc = "finally"]
                 /\ tempFiles' = tempFiles
            ELSE /\ handler' = [handler EXCEPT ![h].pc = "processing",
                                               ![h].key = key]
                 /\ tempFiles' = tempFiles \cup {TempPath(SyncAsset(h), now)}
                 /\ UNCHANGED active_requests
    /\ UNCHANGED << asyncRunning, genCache >>
    /\ UNCHANGED << hubVars, worker, emitted, loadVars, importVars, extVars >>

\* ai_service.generate_caption returns a result, returns the fallback result
\* (style 'fallback') or raises
SyncOutcomes == {"creative", "fallback", "raise"}

\* the generation ends; set_caption stores whatever result was returned; the
\* inner finally unlinks the temp file
SyncFinish(h, outcome) ==
    /\ handler[h].pc = "processing"
    /\ genCache' = IF outcome # "raise"
                   THEN [genCache EXCEPT ![handler[h].key] = outcome]
                   ELSE genCache
    /\ tempFiles' = tempFiles \ {TempPath(SyncAsset(h), now)}
    /\ handler' = [handler EXCEPT ![h].pc = "finally"]
    /\ UNCHANGED << active_requests, asyncRunning >>
    /\ UNCHANGED << hubVars, worker, emitted, loadVars, importVars, extVars >>

\* outer finally: active_requests -= 1
SyncFinally(h) ==
    /\ handler[h].pc = "finally"
    /\ active_requests' = active_requests - 1
    /\ handler' = [handler EXCEPT ![h].pc = "idle"]
    /\ UNCHANGED << asyncRunning, genCache >>
    /\ UNCHANGED << hubVars, workerVars, loadVars, importVars, extVars >>

\* generate_caption_async: validates, then starts the worker thread; the
\* admission counter is neither read nor written
AsyncStart ==
    /\ asyncRunning < MaxAsync
    /\ asyncRunning' = asyncRunning + 1
    /\ UNCHANGED << active_requests, handler, genCache >>
    /\ UNCHANGED << hubVars, workerVars, loadVars, importVars, extVars >>

\* the worker thread of an async request ends
AsyncEnd ==
    /\ asyncRunning > 0
    /\ asyncRunning' = asyncRunning - 1
    /\ UNCHANGED << active_requests, handler, genCache >>
    /\ UNCHANGED << hubVars, workerVars, loadVars, importVars, extVars >>

InitAdmit ==
    /\ AdmitInit
    /\ HubInit /\ WorkersOff /\ LoadInit /\ ImportInit /\ ExtInit

NextAdmit ==
    \/ \E h \in 1..NumHandlers : SyncCheck(h)
    \/ \E h \in 1..NumHandlers : SyncAdmit(h)
    \/ \E h \in 1..NumHandlers, valid \in BOOLEAN, key \in CacheKeys :
           SyncValidate(h, valid, key)
    \/ \E h \in 1..NumHandlers, o \in SyncOutcomes : SyncFinish(h, o)
    \/ \E h \in 1..NumHandlers : SyncFinally(h)
    \/ AsyncStart
    \/ AsyncEnd

SpecAdmit == InitAdmit /\ [][NextAdmit]_vars

\* requests that passed admission and have not left the handler's body
Executing ==
    Cardinality({ h \in 1..NumHandlers :
                    handler[h].pc \in {"validating", "processing"} })
    + asyncRunning

(***************************************************************************)
(* Embedding model loading: DuplicateDetectionService._load_model_if_needed *)
(* and _load_model; no lock is taken anywhere in the service               *)
(***************************************************************************)
\* _reset_unload_timer: the old timer is cancelled and replaced by one due
\* auto_unload_after seconds from now
ResetUnloadTimer(c) ==
    [c EXCEPT !.last_used = now,
              !.unload_timer = [due |-> now + AutoUnloadAfter,
                                waiting |-> TRUE]]

\* `if self.model_loaded: self._reset_unload_timer(); return True`
LoadCheckLoaded(t) ==
    /\ loader[t] = "idle"
    /\ clip.model_loads < MaxLoads
    /\ loader' = [loader EXCEPT ![t] =
                    IF clip.model_loaded THEN "ready" ELSE "check_loading"]
    /\ clip' = IF clip.model_loaded THEN ResetUnloadTimer(clip) ELSE clip
    /\ UNCHANGED unloader
    /\ UNCHANGED << hubVars, workerVars, admitVars, importVars, extVars >>

\* `if self.model_loading`
LoadCheckLoading(t) ==
    /\ loader[t] = "check_loading"
    /\ loader' = [loader EXCEPT ![t] =
                    IF clip.model_loading THEN "waiting" ELSE "load"]
    /\ UNCHANGED << clip, unloader >>
    /\ UNCHANGED << hubVars, workerVars, admitVars, importVars, extVars >>

\* the wait loop ends: loading finished, or 30 s have passed
LoadWaitEnd(t, timeout) ==
    /\ loader[t] = "waiting"
    /\ ~ clip.model_loading \/ timeout
    /\ loader' = [loader EXCEPT ![t] =
                    IF clip.model_loaded THEN "ready" ELSE "failed"]
    /\ UNCHANGED << clip, unloader >>
    /\ UNCHANGED << hubVars, workerVars, admitVars, importVars, extVars >>

\* _load_model up to `self.model_loading = True`
LoadBegin(t) ==
    /\ loader[t] = "load"
    /\ IF clip.clip_available
       THEN /\ clip' = [clip EXCEPT !.model_loading = TRUE]
            /\ loader' = [loader EXCEPT ![t] = "loading"]
       ELSE /\ clip' = clip
            /\ loader' = [loader EXCEPT ![t] = "failed"]
    /\ UNCHANGED unloader
    /\ UNCHANGED << hubVars, workerVars, admitVars, importVars, extVars >>

\* SentenceTransformer(...) returns or raises; finally model_loading = False
LoadEnd(t, ok) ==
    /\ loader[t] = "loading"
    /\ clip' = IF ok
               THEN ResetUnloadTimer([clip EXCEPT !.clip_model = TRUE,
                                                  !.model_loaded = TRUE,
                                                  !.model_loads = @ + 1,
                                                  !.model_loading = FALSE])
               ELSE [clip EXCEPT !.model_loading = FALSE]
    /\ loader' = [loader EXCEPT ![t] = IF ok THEN "ready" ELSE "failed"]
    /\ UNCHANGED unloader
    /\ UNCHANGED << hubVars, workerVars, admitVars, importVars, extVars >>

\* encode_image after the load check: self.clip_model.encode(image) returns
\* the embedding, or raises on a cleared reference and None is returned
EncodeImage(t) ==
    /\ loader[t] = "ready"
    /\ loader' = [loader EXCEPT ![t] =
                    IF clip.clip_model THEN "encoded" ELSE "encode_error"]
    /\ UNCHANGED << clip, unloader >>
    /\ UNCHANGED << hubVars, workerVars, admitVars, importVars, extVars >>

\* the request that needed the model ends
LoadRelease(t) ==
    /\ loader[t] \in {"ready", "failed", "encoded", "encode_error"}
    /\ loader' = [loader EXCEPT ![t] = "idle"]
    /\ UNCHANGED << clip, unloader >>
    /\ UNCHANGED << hubVars, workerVars, admitVars, importVars, extVars >>

\* time passes for the service
LoadTick ==
    /\ now < MaxLoadClock
    /\ now' = now + 1
    /\ UNCHANGED << sse, lock, reader, out, reaper >>
    /\ UNCHANGED << workerVars, admitVars, loadVars, importVars, extVars >>

\* the waiting timer reaches its due time and starts _auto_unload
AutoUnloadFire ==
    /\ unloader = "idle"
    /\ clip.unload_timer.waiting
    /\ now >= clip.unload_timer.due
    /\ clip' = [clip EXCEPT !.unload_timer.waiting = FALSE]
    /\ unloader' = "fired"
    /\ UNCHANGED loader
    /\ UNCHANGED << hubVars, workerVars, admitVars, importVars, extVars >>

\* _auto_unload: loaded and idle for auto_unload_after seconds
AutoUnload ==
    /\ unloader = "fired"
    /\ unloader' = IF /\ clip.model_loaded
                      /\ clip.last_used # NoTime
                      /\ now - clip.last_used >= AutoUnloadAfter
                   THEN "unload"
                   ELSE "idle"
    /\ UNCHANGED << clip, loader >>
    /\ UNCHANGED << hubVars, workerVars, admitVars, importVars, extVars >>

\* _unload_model up to `self.clip_model = None`: the current timer is
\* cancelled and forgotten, the model reference cleared
UnloadBegin ==
    /\ unloader = "unload"
    /\ IF clip.model_loaded
       THEN /\ clip' = [clip EXCEPT !.unload_timer = NoTimer,
                                    !.clip_model = FALSE]
            /\ unloader' = "unloading"
       ELSE /\ clip' = clip
            /\ unloader' = "idle"
    /\ UNCHANGED loader
    /\ UNCHANGED << hubVars, workerVars, admitVars, importVars, extVars >>

\* _unload_model from gc.collect() on: model_loaded = False
UnloadModel ==
    /\ unloader = "unloading"
    /\ clip' = [clip EXCEPT !.model_loaded = FALSE, !.model_unloads = @ + 1]
    /\ unloader' = "idle"
    /\ UNCHANGED loader
    /\ UNCHANGED << hubVars, workerVars, admitVars, importVars, extVars >>

InitLoad ==
    /\ LoadInit
    /\ HubInit /\ WorkersOff /\ AdmitInit /\ ImportInit /\ ExtInit

NextLoad ==
    \/ \E t \in 1..NumLoaders : LoadCheckLoaded(t)
    \/ \E t \in 1..NumLoaders : LoadCheckLoading(t)
    \/ \E t \in 1..NumLoaders, timeout \in BOOLEAN : LoadWaitEnd(t, timeout)
    \/ \E t \in 1..NumLoaders : LoadBegin(t)
    \/ \E t \in 1..NumLoaders, ok \in BOOLEAN : LoadEnd(t, ok)
    \/ \E t \in 1..NumLoaders : EncodeImage(t)
    \/ \E t \in 1..NumLoaders : LoadRelease(t)
    \/ LoadTick
    \/ AutoUnloadFire
    \/ AutoUnload
    \/ UnloadBegin
    \/ UnloadModel

SpecLoad == InitLoad /\ [][NextLoad]_vars

(***************************************************************************)
(* Country import: ImportManager.ensure_data_for_location                  *)
(***************************************************************************)
ImporterNames == {"geonames", "cultural", "unesco", "osm"}
ImportOutcomes == {"rows", "empty", "error"}

\* the `success` flag of _import_country_data: some importer's count > 0
ImportSucceeded(results) == \E n \in ImporterNames : results[n] = "rows"

\* detect_country and _is_country_imported
ImportCheck(c, detected) ==
    /\ importer[c].pc = "idle"
    /\ importer[c].requests < MaxRequestsPerCountry
    /\ IF detected /\ country_imports[c] = 0
       THEN importer' = [importer EXCEPT ![c].pc = "importing"]
       \* country unknown (returns "NC") or already imported
       ELSE importer' = [importer EXCEPT ![c].requests = @ + 1]
    /\ UNCHANGED country_imports
    /\ UNCHANGED << hubVars, workerVars, admitVars, loadVars, extVars >>

\* _import_country_data: runs the importers in order and returns; the
\* success flag and the stats are computed and dropped
ImportCountryData(c, results) ==
    /\ importer[c].pc = "importing"
    /\ importer' = [importer EXCEPT
           ![c].pc = "idle",
           ![c].requests = @ + 1,
           ![c].imports = @ + 1,
           ![c].imports_after = IF importer[c].succeeded THEN @ + 1 ELSE @,
           ![c].succeeded = @ \/ ImportSucceeded(results)]
    /\ UNCHANGED country_imports
    /\ UNCHANGED << hubVars, workerVars, admitVars, loadVars, extVars >>

InitImport ==
    /\ ImportInit
    /\ HubInit /\ WorkersOff /\ AdmitInit /\ LoadInit /\ ExtInit

NextImport ==
    \/ \E c \in Countries, detected \in BOOLEAN : ImportCheck(c, detected)
    \/ \E c \in Countries, results \in [ImporterNames -> ImportOutcomes] :
           ImportCountryData(c, results)

SpecImport == InitImport /\ [][NextImport]_vars

(***************************************************************************)
(* Geographic lookup: GeoService.get_location_info                         *)
(***************************************************************************)
Min(a, b) == IF a < b THEN a ELSE b

\* the outcome of _search_all_geonames: an exception, or the numbers of rows
\* of feature class P, of a cultural feature code, and of class T/H/L/S
GeoNamesResults ==
    {[raises |-> TRUE, P |-> 0, CULT |-> 0, NAT |-> 0]} \cup
    [raises : {FALSE}, P : {0, 1}, CULT : {0, 1}, NAT : {0, 1, 5}]
TableResults == {"raise", "none", "rows"}

\* section 1 of get_location_info: categorize the GeoNames rows; the score
\* and the source tag are added only when a populated place was found
ApplyGeoNames(loc, r) ==
    IF r.raises \/ r.P + r.CULT + r.NAT = 0 THEN loc
    ELSE LET l1 == [loc EXCEPT
                      !.geonames_all = r.P + r.CULT + r.NAT,
                      !.major_cities = r.P,
                      !.cultural_sites =
                          IF r.CULT > 0 THEN {"geonames"} ELSE {},
                      !.nearby_pois = r.NAT]
         IN IF r.P > 0
            THEN [l1 EXCEPT !.city = "geonames",
                            !.confidence_score = @ + 4,
                            !.data_sources = @ \cup {"geonames"}]
            ELSE l1

\* section 2: UNESCO sites
ApplyUnesco(loc, res) ==
    IF res = "rows"
    THEN [loc EXCEPT !.unesco_sites = 1,
                     !.data_sources = @ \cup {"unesco"},
                     !.confidence_score = @ + 3]
    ELSE loc

\* section 3: the cultural_sites table, merged with the GeoNames ones
ApplyCultural(loc, res) ==
    IF res = "rows"
    THEN [loc EXCEPT !.cultural_sites = @ \cup {"cultural_db"},
                     !.data_sources = @ \cup {"cultural_db"},
                     !.confidence_score = @ + 2]
    ELSE loc

\* section 4: imported OSM POIs
ApplyOsm(loc, res) ==
    IF res = "rows"
    THEN [loc EXCEPT !.osm_pois = 1,
                     !.data_sources = @ \cup {"osm_db"},
                     !.confidence_score = @ + 2]
    ELSE loc

\* section 5: _merge_nominatim_data, the tag and the clipped score
ApplyNominatim(loc, res) ==
    IF res = "data"
    THEN [loc EXCEPT !.formatted_address = "nominatim",
                     !.city = IF @ = "" THEN "nominatim" ELSE @,
                     !.data_sources = @ \cup {"nominatim"},
                     !.confidence_score = Min(@ + 2, 10)]
    ELSE loc

\* section 6: POIs of the Overpass API
ApplyOverpass(loc, res) ==
    IF res = "pois"
    THEN [loc EXCEPT !.nearby_pois = @ + 1,
                     !.overpass_pois = 1,
                     !.data_sources = @ \cup {"overpass_api"},
                     !.confidence_score = @ + 1]
    ELSE loc

\* _finalize_location_data: an address is generated when none was merged
FinalizeLocation(loc) ==
    IF loc.formatted_address # "" THEN loc
    ELSE [loc EXCEPT !.formatted_address =
              IF \/ loc.unesco_sites > 0 \/ loc.cultural_sites # {}
                 \/ loc.city # ""
              THEN "generated" ELSE "coords"]

FallbackKeepsScore(loc) ==
    [loc EXCEPT !.formatted_address = "coords"]

\* the outer except clause of get_location_info
FallbackLocation(loc) ==
    [loc EXCEPT !.formatted_address = "coords", !.confidence_score = 1]

\* _respect_rate_limit: the time at which the caller goes on
AfterRateLimit(svc, clock) ==
    IF clock - svc.last_external_request < RateLimit
    THEN svc.last_external_request + RateLimit
    ELSE clock

\* a request to the Nominatim reverse endpoint leaves the process at `time`
LogRequest(log, time) ==
    [last |-> time,
     minGap |-> IF log.last = -1 THEN log.minGap
                ELSE Min(log.minGap, time - log.last)]

\* disconnect_db: closes the cursor and the connection that exist
DisconnectDb(db) == IF db = "none" THEN "none" ELSE "closed"

\* `self._cache[cache_key] = (location, time.time())` and the return
StoreAndReturn(t, loc, db, down) ==
    /\ geoSvc' = [geoSvc EXCEPT !.db = db,
                                !.cache[lk[t].key] = loc,
                                !.cache_time[lk[t].key] = geoClock]
    /\ lk' = [lk EXCEPT ![t].pc = "done", ![t].result = loc,
                        ![t].location = loc, ![t].dbDown = down]

\* validation and cache lookup
GeoStart(t, key, valid) ==
    /\ lk[t].pc = "idle"
    /\ lk[t].lookups < MaxLookups
    /\ IF ~ valid
       THEN lk' = [lk EXCEPT ![t] = [InitLookup EXCEPT
                       !.pc = "done", !.key = key, !.valid = FALSE,
                       !.raised = TRUE,
                       !.lookups = lk[t].lookups]]
       ELSE IF /\ geoSvc.cache[key] # NoLocation
               /\ geoClock - geoSvc.cache_time[key] < CacheTtl
       THEN lk' = [lk EXCEPT ![t] = [InitLookup EXCEPT
                       !.pc = "done", !.key = key,
                       !.result = geoSvc.cache[key],
                       !.lookups = lk[t].lookups]]
       ELSE lk' = [lk EXCEPT ![t] = [InitLookup EXCEPT
                       !.pc = IF geoSvc.import_available
                              THEN "import" ELSE "connect",
                       !.key = key,
                       !.lookups = lk[t].lookups]]
    /\ UNCHANGED << geoSvc, geoClock, nominatimLog >>
    /\ UNCHANGED notGeoVars

\* ImportManager.ensure_data_for_location: CountryDetector.detect_country
\* sends its reverse-geocoding request at once; every failure is caught
GeoImport(t) ==
    /\ lk[t].pc = "import"
    /\ nominatimLog' = LogRequest(nominatimLog, geoClock)
    /\ lk' = [lk EXCEPT ![t].pc = "connect"]
    /\ UNCHANGED << geoSvc, geoClock >>
    /\ UNCHANGED notGeoVars

\* connect_db: a connection error goes to the outer except clause
GeoConnect(t, up) ==
    /\ lk[t].pc = "connect"
    /\ IF up
       THEN /\ geoSvc' = [geoSvc EXCEPT !.db = "open"]
            /\ lk' = [lk EXCEPT ![t].pc = "geonames"]
       ELSE StoreAndReturn(t, FallbackLocation(lk[t].location),
                           DisconnectDb(geoSvc.db), TRUE)
    /\ UNCHANGED << geoClock, nominatimLog >>
    /\ UNCHANGED notGeoVars

GeoNames(t, r) ==
    /\ lk[t].pc = "geonames"
    /\ lk' = [lk EXCEPT ![t].pc = "unesco",
                        ![t].location = ApplyGeoNames(@, r)]
    /\ UNCHANGED << geoSvc, geoClock, nominatimLog >>
    /\ UNCHANGED notGeoVars

GeoUnesco(t, res) ==
    /\ lk[t].pc = "unesco"
    /\ lk' = [lk EXCEPT ![t].pc = "cultural",
                        ![t].location = ApplyUnesco(@, res)]
    /\ UNCHANGED << geoSvc, geoClock, nominatimLog >>
    /\ UNCHANGED notGeoVars

GeoCultural(t, res) ==
    /\ lk[t].pc = "cultural"
    /\ lk' = [lk EXCEPT ![t].pc = "osm",
                        ![t].location = ApplyCultural(@, res)]
    /\ UNCHANGED << geoSvc, geoClock, nominatimLog >>
    /\ UNCHANGED notGeoVars

GeoOsm(t, res) ==
    /\ lk[t].pc = "osm"
    /\ lk' = [lk EXCEPT ![t].pc = "nominatim",
                        ![t].location = ApplyOsm(@, res)]
    /\ UNCHANGED << geoSvc, geoClock, nominatimLog >>
    /\ UNCHANGED notGeoVars

\* section 5: _get_nominatim_data waits for the rate limit, sends the
\* request and returns the data or None
GeoNominatim(t, res) ==
    /\ lk[t].pc = "nominatim"
    /\ IF \/ lk[t].location.confidence_score < 8
          \/ lk[t].location.formatted_address = ""
       THEN LET at == AfterRateLimit(geoSvc, geoClock) IN
            /\ at <= MaxGeoClock
            /\ geoClock' = at
            /\ geoSvc' = [geoSvc EXCEPT !.last_external_request = at]
            /\ nominatimLog' = LogRequest(nominatimLog, at)
            /\ lk' = [lk EXCEPT ![t].pc = "overpass",
                                ![t].location = ApplyNominatim(@, res)]
       ELSE /\ res = "none"
            /\ lk' = [lk EXCEPT ![t].pc = "overpass"]
            /\ UNCHANGED << geoSvc, geoClock, nominatimLog >>
    /\ UNCHANGED notGeoVars

\* section 6: _search_nearby_pois, behind the same rate limit.  The test is
\* `confidence_score < 0.9` on binary floats: every sum of the contributions
\* that makes nine tenths evaluates to 0.8999999999999999, which passes it
GeoOverpass(t, res) ==
    /\ lk[t].pc = "overpass"
    /\ IF /\ lk[t].location.nearby_pois < 5
          /\ lk[t].location.confidence_score <= 9
       THEN LET at == AfterRateLimit(geoSvc, geoClock) IN
            /\ at <= MaxGeoClock
            /\ geoClock' = at
            /\ geoSvc' = [geoSvc EXCEPT !.last_external_request = at]
            /\ lk' = [lk EXCEPT ![t].pc = "finalize",
                                ![t].location = ApplyOverpass(@, res)]
       ELSE /\ res = "none"
            /\ lk' = [lk EXCEPT ![t].pc = "finalize"]
            /\ UNCHANGED << geoSvc, geoClock >>
    /\ UNCHANGED nominatimLog
    /\ UNCHANGED notGeoVars

\* section 7, the finally clause, the cache write and the return
GeoFinalize(t) ==
    /\ lk[t].pc = "finalize"
    /\ StoreAndReturn(t, FinalizeLocation(lk[t].location),
                      DisconnectDb(geoSvc.db), FALSE)
    /\ UNCHANGED << geoClock, nominatimLog >>
    /\ UNCHANGED notGeoVars

\* the caller has the result (or the ValueError); the next lookup may start
GeoReturn(t) ==
    /\ lk[t].pc = "done"
    /\ lk' = [lk EXCEPT ![t] = [InitLookup EXCEPT
                                   !.lookups = lk[t].lookups + 1]]
    /\ UNCHANGED << geoSvc, geoClock, nominatimLog >>
    /\ UNCHANGED notGeoVars

GeoTick ==
    /\ geoClock < MaxGeoClock
    /\ geoClock' = geoClock + 1
    /\ UNCHANGED << geoSvc, lk, nominatimLog >>
    /\ UNCHANGED notGeoVars

InitGeo ==
    /\ geoSvc \in { GeoServiceInit(a) : a \in BOOLEAN }
    /\ lk = [t \in GeoThreads |-> InitLookup]
    /\ geoClock = GeoEpoch
    /\ nominatimLog = [last |-> -1, minGap |-> RateLimit]
    /\ HubInit /\ WorkersOff /\ AdmitInit /\ LoadInit /\ ImportInit
    /\ TravelInit /\ OllamaInit /\ DupIdle /\ UtilIdle

NextGeo ==
    \/ \E t \in GeoThreads, k \in GeoKeys, valid \in BOOLEAN :
           GeoStart(t, k, valid)
    \/ \E t \in GeoThreads : GeoImport(t)
    \/ \E t \in GeoThreads, up \in BOOLEAN : GeoConnect(t, up)
    \/ \E t \in GeoThreads, r \in GeoNamesResults : GeoNames(t, r)
    \/ \E t \in GeoThreads, res \in TableResults : GeoUnesco(t, res)
    \/ \E t \in GeoThreads, res \in TableResults : GeoCultural(t, res)
    \/ \E t \in GeoThreads, res \in TableResults : GeoOsm(t, res)
    \/ \E t \in GeoThreads, res \in {"data", "none"} : GeoNominatim(t, res)
    \/ \E t \in GeoThreads, res \in {"pois", "none"} : GeoOverpass(t, res)
    \/ \E t \in GeoThreads : GeoFinalize(t)
    \/ \E t \in GeoThreads : GeoReturn(t)
    \/ GeoTick

SpecGeo == InitGeo /\ [][NextGeo]_vars

(***************************************************************************)
(* Travel enrichment: TravelEnricher._get_travel_model and enrich          *)
(***************************************************************************)

\* _test_model_availability: a model already in _tested_models is not
\* tested again; otherwise it is available when it is listed or answers
TestModelAvailability(tv, m, up) ==
    IF m \in tv.tested THEN m = tv.travel_model ELSE up[m]

\* _get_travel_model: the choice is made once and kept in self.travel_model
GetTravelModel(tv, up) ==
    IF tv.travel_model # "none" THEN tv
    ELSE IF TestModelAvailability(tv, "primary", up)
    THEN [travel_model |-> "primary", tested |-> tv.tested \cup {"primary"}]
    ELSE IF TestModelAvailability(tv, "fallback", up)
    THEN [travel_model |-> "fallback", tested |-> tv.tested \cup {"fallback"}]
    ELSE tv

\* enrich up to the model call; up[m] tells whether model m answers with a
\* usable text during this call
EnrichSelect(up) ==
    /\ enrich.pc = "idle"
    /\ enrich.calls < MaxEnrichCalls
    /\ travel' = GetTravelModel(travel, up)
    /\ enrich' = [enrich EXCEPT
           !.up = up,
           !.model = travel'.travel_model,
           !.result = IF travel'.travel_model = "none" THEN "null" ELSE "none",
           !.pc = IF travel'.travel_model = "none" THEN "done" ELSE "call"]
    /\ UNCHANGED notTravelVars

\* generate_text on the selected model: a text, or None / an exception,
\* both of which make enrich return None
EnrichCall ==
    /\ enrich.pc = "call"
    /\ enrich' = [enrich EXCEPT
           !.result = IF enrich.up[enrich.model] THEN "text" ELSE "null",
           !.pc = "done"]
    /\ UNCHANGED travel
    /\ UNCHANGED notTravelVars

EnrichReturn ==
    /\ enrich.pc = "done"
    /\ enrich' = [enrich EXCEPT !.pc = "idle", !.calls = @ + 1]
    /\ UNCHANGED travel
    /\ UNCHANGED notTravelVars

(***************************************************************************)
(* Model client: OllamaClient.call_with_retry                              *)
(***************************************************************************)
\* config/ai_config.py: 'max_retries': 3
MaxRetries == 3

\* what one requests.post attempt can end in: a parsed reply, a parsed but
\* empty reply, an unparseable body (response.json() raises), a timeout, a
\* connection error, an HTTP error status
AttemptOutcomes ==
    {"ok", "empty", "malformed", "timeout", "connection", "http_error"}
TransientOutcomes == {"timeout", "connection"}

OllamaStart ==
    /\ ollama.pc = "idle"
    /\ ollama.calls < MaxOllamaCalls
    /\ ollama' = [ollama EXCEPT
           !.pc = IF MaxRetries > 0 THEN "attempt" ELSE "done",
           !.attempt = 0, !.attempts = 0,
           !.result = IF MaxRetries > 0 THEN "none" ELSE "None"]
    /\ UNCHANGED notOllamaVars

\* one iteration of `for attempt in range(self.max_retries)`
OllamaAttempt(outcome) ==
    /\ ollama.pc = "attempt"
    /\ LET last == ollama.attempt = MaxRetries - 1 IN
       ollama' =
         CASE outcome \in {"ok", "empty"} ->
                [ollama EXCEPT !.pc = "done", !.attempts = @ + 1,
                               !.result = outcome]
           [] outcome = "timeout" /\ last ->
                [ollama EXCEPT !.pc = "done", !.attempts = @ + 1,
                               !.result = "TimeoutError"]
           [] outcome # "timeout" /\ outcome \notin {"ok", "empty"} /\ last ->
                [ollama EXCEPT !.pc = "done", !.attempts = @ + 1,
                               !.result = "None"]
           [] OTHER ->
                [ollama EXCEPT !.attempt = @ + 1, !.attempts = @ + 1,
                               !.retried_after = @ \cup {outcome}]
    /\ UNCHANGED notOllamaVars

OllamaReturn ==
    /\ ollama.pc = "done"
    /\ ollama' = [ollama EXCEPT !.pc = "idle", !.calls = @ + 1]
    /\ UNCHANGED notOllamaVars

InitClients ==
    /\ TravelInit /\ OllamaInit /\ GeoIdle /\ DupIdle /\ UtilIdle
    /\ HubInit /\ WorkersOff /\ AdmitInit /\ LoadInit /\ ImportInit

NextClients ==
    \/ \E up \in [TravelModels -> BOOLEAN] : EnrichSelect(up)
    \/ EnrichCall
    \/ EnrichReturn
    \/ OllamaStart
    \/ \E o \in AttemptOutcomes : OllamaAttempt(o)
    \/ OllamaReturn

SpecClients == InitClients /\ [][NextClients]_vars

(***************************************************************************)
(* Duplicate detection: group_similar_images and _analyze_groups_quality   *)
(***************************************************************************)
Max(S) == CHOOSE x \in S : \A y \in S : y <= x
MinOf(S) == CHOOSE x \in S : \A y \in S : x <= y

\* the elements of a set of indices in increasing order
RECURSIVE Ascending(_)
Ascending(S) ==
    IF S = {} THEN << >>
    ELSE << MinOf(S) >> \o Ascending(S \ {MinOf(S)})

Members(g) == { g[k] : k \in 1..Len(g) }

\* compute_similarity_matrix: the embeddings that are not None are stacked,
\* so row and column k of the matrix belong to the k-th image that encoded
ValidEmbeddings(d) == Ascending({ i \in ImageIdx : d.encoded[i] })

\* similarity_matrix[i][j] >= threshold, read with the indices of images
MatrixPair(d, i, j) == << ValidEmbeddings(d)[i], ValidEmbeddings(d)[j] >>
AboveThreshold(d, i, j) == d.similar[MatrixPair(d, i, j)]

Abs(x) == IF x < 0 THEN 0 - x ELSE x

\* _check_time_proximity: dates that do not parse count as close
CheckTimeProximity(d, i, j) ==
    IF d.date[i] = NoDate \/ d.date[j] = NoDate THEN TRUE
    ELSE Abs(d.date[i] - d.date[j]) <= d.time_window_hours

\* `if time_window_hours and self._check_time_proximity(...)` /
\* `elif not time_window_hours`: None and 0 are both falsy
WindowGiven(w) == w # NoWindow
Truthy(w) == w # NoWindow /\ w # 0
TimeAllows(d, i, j) ==
    IF Truthy(d.time_window_hours) THEN CheckTimeProximity(d, i, j) ELSE TRUE

NoGroups == [groups |-> << >>, compared |-> {}, raised |-> FALSE]

\* group_similar_images: the loop over i, with the set `processed`; a seed
\* takes every later unprocessed image whose matrix entry reaches the
\* threshold and whose date fits, and a group is kept when it has more than
\* one image.  An index past the end of the matrix raises IndexError.
RECURSIVE GroupFrom(_, _, _, _)
GroupFrom(d, i, processed, acc) ==
    IF i > MaxImages THEN acc
    ELSE IF i \in processed
    THEN GroupFrom(d, i + 1, processed, acc)
    ELSE LET later == { j \in (i + 1)..MaxImages : j \notin processed }
             outside == { j \in later : j > Len(ValidEmbeddings(d)) }
             read == IF outside = {} THEN later
                     ELSE { j \in later : j < MinOf(outside) }
             joined == { j \in read :
                           AboveThreshold(d, i, j) /\ TimeAllows(d, i, j) }
             compared == acc.compared \cup
                 { [i |-> i, j |-> j, of |-> MatrixPair(d, i, j),
                    joined |-> j \in joined] : j \in read }
         IN IF outside # {}
            THEN [groups |-> << >>, compared |-> compared, raised |-> TRUE]
            ELSE GroupFrom(d, i + 1, processed \cup {i} \cup joined,
                     [groups |-> IF joined # {}
                                 THEN Append(acc.groups,
                                             << i >> \o Ascending(joined))
                                 ELSE acc.groups,
                      compared |-> compared, raised |-> FALSE])

\* `if len(images) == 0 or similarity_matrix.size == 0: return []`
GroupSimilarImages(d) ==
    IF ValidEmbeddings(d) = << >> THEN NoGroups
    ELSE GroupFrom(d, 1, {}, NoGroups)

RECURSIVE AllMembers(_)
AllMembers(groups) ==
    IF groups = << >> THEN {}
    ELSE Members(Head(groups)) \cup AllMembers(Tail(groups))

\* image_data_map = {img['asset_id']: img.get('data') for img in all_images}:
\* the last image with the asset id decides
ImageData(d, a) ==
    d.data[Max({ i \in ImageIdx : d.asset_id[i] = a })]

\* quality_scores.sort(key=lambda x: x[1], reverse=True): stable, so a later
\* member goes behind the members whose score is at least its own
RECURSIVE InsertByScore(_, _, _)
InsertByScore(sorted, m, score) ==
    IF sorted = << >> THEN << m >>
    ELSE IF score[Head(sorted)] >= score[m]
    THEN << Head(sorted) >> \o InsertByScore(Tail(sorted), m, score)
    ELSE << m >> \o sorted

RECURSIVE SortFrom(_, _, _)
SortFrom(sorted, rest, score) ==
    IF rest = << >> THEN sorted
    ELSE SortFrom(InsertByScore(sorted, Head(rest), score), Tail(rest), score)

KeepOrder(members, score) == members

SortByScore(members, score) == SortFrom(<< >>, members, score)

PrimaryAllBest(members, score) ==
    { m \in Members(members) : score[m] = score[members[1]] }

\* img['is_primary'] = (i == 0)
PrimaryOf(members, score) == { members[1] }

\* a caller passes its images to find_duplicates
DupStart(asset_id, similar, quality_service, encoded, date, window) ==
    /\ dup.pc = "idle"
    /\ dup' = DupCall(asset_id, similar, quality_service, encoded, date,
                      window)
    /\ UNCHANGED notDupVars

\* steps 1-3 of find_duplicates; the grouped images lose their 'data' key;
\* an IndexError of group_similar_images leaves find_duplicates
DupGroup ==
    /\ dup.pc = "start"
    /\ LET g == GroupSimilarImages(dup) IN
       dup' = [dup EXCEPT
           !.pc = IF g.raised THEN "raised" ELSE "grouped",
           !.groups = g.groups,
           !.compared = g.compared,
           !.data = [i \in ImageIdx |-> i \notin AllMembers(g.groups)]]
    /\ UNCHANGED notDupVars

\* the image whose entry of image_data_map is read for asset id a
DataSource(d, a) == Max({ i \in ImageIdx : d.asset_id[i] = a })

\* _analyze_groups_quality; outcome[i] is what the quality service would
\* return for the bytes of image i: an overall score, or -1 for an
\* exception.  For the properties, analyzed_on[i] is the image whose bytes
\* were handed to the service for member i (0: the service was not called)
\* and returned[i] what the service answered then (-1: nothing).
ScoreOutcomes == {-1, 0, 1, 2}

DupAnalyze(outcome) ==
    /\ dup.pc = "grouped"
    /\ LET src == [i \in ImageIdx |-> DataSource(dup, dup.asset_id[i])]
           called == [i \in ImageIdx |->
                        /\ dup.quality_service
                        /\ i \in AllMembers(dup.groups)
                        /\ ImageData(dup, dup.asset_id[i])]
           score == [i \in ImageIdx |->
                       IF /\ dup.quality_service
                          /\ ImageData(dup, dup.asset_id[i])
                          /\ outcome[src[i]] >= 0
                       THEN outcome[src[i]] ELSE 0]
           order == [k \in 1..Len(dup.groups) |->
                       IF dup.quality_service
                       THEN SortByScore(dup.groups[k], score)
                       ELSE dup.groups[k]]
       IN dup' = [dup EXCEPT
              !.pc = "done",
              !.groups = order,
              !.quality_score =
                  [i \in ImageIdx |->
                      IF i \in AllMembers(dup.groups) THEN score[i] ELSE 0],
              !.analyzed_on =
                  [i \in ImageIdx |-> IF called[i] THEN src[i] ELSE 0],
              !.returned =
                  [i \in ImageIdx |->
                      IF called[i] THEN outcome[src[i]] ELSE 0 - 1],
              !.is_primary =
                  [i \in ImageIdx |->
                      \E k \in 1..Len(order) :
                          i \in PrimaryOf(order[k], score)]]
    /\ UNCHANGED notDupVars

\* find_duplicates has returned its groups, or raised
DupReturn ==
    /\ dup.pc \in {"done", "raised"}
    /\ dup' = NoDupCall
    /\ UNCHANGED notDupVars

InitDup ==
    /\ DupIdle
    /\ GeoIdle /\ TravelInit /\ OllamaInit /\ UtilIdle
    /\ HubInit /\ WorkersOff /\ AdmitInit /\ LoadInit /\ ImportInit

\* quality ranking: every image encodes and no time window is given
NextDup ==
    \/ /\ dup.pc = "idle"
       /\ \E a \in [ImageIdx -> AssetIds], s \in [ImagePairs -> BOOLEAN],
             q \in BOOLEAN :
               DupStart(a, s, q, AllEncoded, SameDates, NoWindow)
    \/ DupGroup
    \/ /\ dup.pc = "grouped"
       /\ \E outcome \in [ImageIdx -> ScoreOutcomes] : DupAnalyze(outcome)
    \/ DupReturn

SpecDup == InitDup /\ [][NextDup]_vars

\* grouping: images that fail to encode, dates and time windows; no
\* quality service is configured
NextGroup ==
    \/ /\ dup.pc = "idle"
       /\ \E s \in [ImagePairs -> BOOLEAN], e \in [ImageIdx -> BOOLEAN],
             t \in [ImageIdx -> Dates], w \in Windows :
               DupStart([i \in ImageIdx |-> "x"], s, FALSE, e, t, w)
    \/ DupGroup
    \/ DupAnalyze([i \in ImageIdx |-> 0])
    \/ DupReturn

SpecGroup == InitDup /\ [][NextGroup]_vars

(***************************************************************************)
(* Prompt configuration: AIConfig._load_config, reload_config and the      *)
(* getters.  Every getter reads self._config; get_caption_prompt reads it  *)
(* twice, once in _normalize_language and once for the templates.          *)
(***************************************************************************)
LoadOutcomes == {"parsed", "failed"}

\* the human-editable YAML file is saved with new content
ConfigEditFile ==
    /\ aicfg.file < MaxConfigEdits
    /\ aicfg' = [aicfg EXCEPT !.file = @ + 1]
    /\ UNCHANGED notConfigVars

\* _load_config: self._config is bound to the parsed file, or to the
\* default configuration when opening or parsing fails
LoadConfig(outcome) ==
    IF outcome = "parsed" THEN aicfg.file ELSE DefaultConfig

\* POST /ai/reload-config -> AIService.reload_config -> AIConfig.reload_config
ReloadConfig(outcome) ==
    /\ aicfg' = [aicfg EXCEPT !._config = LoadConfig(outcome)]
    /\ UNCHANGED notConfigVars

\* get_models: one read of self._config
GetModels(r) ==
    /\ aicfg.reader[r].pc = "idle"
    /\ aicfg' = [aicfg EXCEPT !.reader[r] =
            [pc |-> "done", call |-> "get_models",
             seen |-> << aicfg._config >>]]
    /\ UNCHANGED notConfigVars

\* get_caption_prompt, first half: _normalize_language reads
\* self._config.get('supported_languages')
NormalizeLanguage(r) ==
    /\ aicfg.reader[r].pc = "idle"
    /\ aicfg' = [aicfg EXCEPT !.reader[r] =
            [pc |-> "normalized", call |-> "get_caption_prompt",
             seen |-> << aicfg._config >>]]
    /\ UNCHANGED notConfigVars

\* get_caption_prompt, second half: the templates are read from
\* self._config.get('captions_...')
GetCaptionPrompt(r) ==
    /\ aicfg.reader[r].pc = "normalized"
    /\ aicfg' = [aicfg EXCEPT !.reader[r].pc = "done",
                              !.reader[r].seen = Append(@, aicfg._config)]
    /\ UNCHANGED notConfigVars

\* the getter has returned; the thread is free for its next call
ConfigReturn(r) ==
    /\ aicfg.reader[r].pc = "done"
    /\ aicfg' = [aicfg EXCEPT !.reader[r] = InitConfigReader]
    /\ UNCHANGED notConfigVars

InitConfig ==
    /\ UtilIdle
    /\ GeoIdle /\ TravelInit /\ OllamaInit /\ DupIdle
    /\ HubInit /\ WorkersOff /\ AdmitInit /\ LoadInit /\ ImportInit

NextConfig ==
    \/ ConfigEditFile
    \/ \E o \in LoadOutcomes : ReloadConfig(o)
    \/ \E r \in ConfigReaders : GetModels(r)
    \/ \E r \in ConfigReaders : NormalizeLanguage(r)
    \/ \E r \in ConfigReaders : GetCaptionPrompt(r)
    \/ \E r \in ConfigReaders : ConfigReturn(r)

SpecConfig == InitConfig /\ [][NextConfig]_vars

(***************************************************************************)
(* CacheManager (utils/cache_manager.py): every method runs under           *)
(* self.lock, so each is one step.                                          *)
(***************************************************************************)
CacheKeyNames == {"a", "b", "c"}
CacheValues == {"v1", "v2"}
\* the ttl argument of set; 0 stands for an absent (None) or zero ttl
TtlInputs == {0, 1}

CacheEntry(key, data, ttl, t) ==
    [key |-> key, data |-> data, created_at |-> t, ttl |-> ttl]

\* `ttl or self.default_ttl`
EntryTtl(ttl) == IF ttl = 0 THEN CacheDefaultTtl ELSE ttl

\* CacheEntry.is_valid
IsValidShort(e, t) == t - e.created_at < e.ttl - 1
IsValid(e, t) == t - e.created_at < e.ttl

InCache(cache, key) == \E i \in 1..Len(cache) : cache[i].key = key
EntryOf(cache, key) ==
    cache[CHOOSE i \in 1..Len(cache) : cache[i].key = key]

\* del self.cache[key]
DelKey(cache, key) == SelectSeq(cache, LAMBDA e : e.key # key)

\* OrderedDict.move_to_end(key)
KeepPlace(cache, key) == cache
MoveToEnd(cache, key) == DelKey(cache, key) \o << EntryOf(cache, key) >>

\* `while len(self.cache) >= self.max_size`: delete next(iter(self.cache))
RECURSIVE EvictWhileFull(_)
EvictWhileFull(cache) ==
    IF Len(cache) >= CacheMaxSize THEN EvictWhileFull(Tail(cache)) ELSE cache

KeysOf(cache) == [i \in 1..Len(cache) |-> cache[i].key]
WithoutKey(keys, key) == SelectSeq(keys, LAMBDA k : k # key)
WithoutKeys(keys, gone) ==
    SelectSeq(keys, LAMBDA k : \A i \in 1..Len(gone) : gone[i] # k)

CacheOps == cacheMgr.stats.ops < MaxCacheOps /\ cacheMgr.lock = "free"

\* CacheManager.get
CacheGet(key) ==
    /\ CacheOps
    /\ LET c == cacheMgr
           present == InCache(c.cache, key)
           hit == present /\ IsValid(EntryOf(c.cache, key), c.clock)
       IN cacheMgr' = [c EXCEPT
              !.cache = IF hit THEN MoveToEnd(@, key)
                        ELSE IF present THEN DelKey(@, key) ELSE @,
              !.stats.hits = IF hit THEN @ + 1 ELSE @,
              !.stats.expirations = IF present /\ ~ hit THEN @ + 1 ELSE @,
              !.stats.misses = IF hit THEN @ ELSE @ + 1,
              !.stats.ops = @ + 1,
              !.used = IF hit THEN WithoutKey(@, key) \o << key >>
                       ELSE WithoutKey(@, key),
              !.last = [InitCacheOp EXCEPT
                  !.op = "get", !.key = key, !.at = c.clock,
                  !.returned = IF hit THEN EntryOf(c.cache, key).data
                               ELSE NoValue,
                  !.used_before = c.used]]
    /\ UNCHANGED notCacheVars

\* CacheManager.set
CacheSet(key, value, ttl) ==
    /\ CacheOps
    /\ LET c == cacheMgr
           rest == DelKey(c.cache, key)
           kept == EvictWhileFull(rest)
           gone == SubSeq(KeysOf(rest), 1, Len(rest) - Len(kept))
       IN cacheMgr' = [c EXCEPT
              !.cache = kept \o
                        << CacheEntry(key, value, EntryTtl(ttl), c.clock) >>,
              !.stats.evictions = @ + Len(gone),
              !.stats.ops = @ + 1,
              !.used = WithoutKeys(WithoutKey(@, key), gone) \o << key >>,
              !.live = { e \in @ : /\ e.key # key
                                    /\ \A i \in 1..Len(gone) :
                                           gone[i] # e.key }
                       \cup {[key |-> key, value |-> value, at |-> c.clock,
                               ttl |-> IF ttl = 0 THEN CacheDefaultTtl
                                       ELSE ttl]},
              !.last = [InitCacheOp EXCEPT
                  !.op = "set", !.key = key, !.value = value, !.at = c.clock,
                  !.full_new = /\ ~ InCache(c.cache, key)
                               /\ Len(c.cache) >= CacheMaxSize,
                  !.evicted = gone,
                  !.used_before = c.used]]
    /\ UNCHANGED notCacheVars

\* CacheManager.delete
CacheDelete(key) ==
    /\ CacheOps
    /\ cacheMgr' = [cacheMgr EXCEPT
           !.cache = DelKey(@, key),
           !.stats.ops = @ + 1,
           !.used = WithoutKey(@, key),
           !.live = { e \in @ : e.key # key },
           !.last = [InitCacheOp EXCEPT
               !.op = "delete", !.key = key, !.at = cacheMgr.clock,
               !.used_before = cacheMgr.used]]
    /\ UNCHANGED notCacheVars

\* CacheManager.clear
CacheClear ==
    /\ CacheOps
    /\ cacheMgr' = [cacheMgr EXCEPT
           !.cache = << >>,
           !.stats.ops = @ + 1,
           !.used = << >>,
           !.live = {},
           !.last = [InitCacheOp EXCEPT
               !.op = "clear", !.at = cacheMgr.clock,
               !.used_before = cacheMgr.used]]
    /\ UNCHANGED notCacheVars

\* CacheManager.cleanup_expired
CleanupExpired ==
    /\ CacheOps
    /\ LET c == cacheMgr
           kept == SelectSeq(c.cache, LAMBDA e : IsValid(e, c.clock))
       IN cacheMgr' = [c EXCEPT
              !.cache = kept,
              !.stats.expirations = @ + Len(c.cache) - Len(kept),
              !.stats.ops = @ + 1,
              !.used = SelectSeq(@, LAMBDA k : InCache(kept, k)),
              !.last = [InitCacheOp EXCEPT
                  !.op = "cleanup", !.at = c.clock, !.used_before = c.used]]
    /\ UNCHANGED notCacheVars

\* CacheManager.get_info up to its return statement: the lock is taken and
\* the entries are listed
CacheGetInfo ==
    /\ CacheOps
    /\ cacheMgr.admin = "idle"
    /\ cacheMgr' = [cacheMgr EXCEPT !.lock = "admin",
                                    !.admin = "stats_in_info"]
    /\ UNCHANGED notCacheVars

\* CacheManager.get_stats, called by the admin stats route or from the
\* return statement of get_info: `with self.lock` around the computation
CacheGetStats ==
    /\ cacheMgr.lock = "free"
    /\ IF cacheMgr.admin = "stats_in_info"
       THEN cacheMgr' = [cacheMgr EXCEPT !.admin = "info_returning"]
       ELSE /\ CacheOps
            /\ cacheMgr' = [cacheMgr EXCEPT
                   !.stats.ops = @ + 1,
                   !.last = [InitCacheOp EXCEPT
                       !.op = "get_stats", !.at = cacheMgr.clock,
                       !.used_before = cacheMgr.used]]
    /\ UNCHANGED notCacheVars

\* time.time() advances by one second
CacheTick ==
    /\ cacheMgr.clock < MaxCacheClock
    /\ cacheMgr' = [cacheMgr EXCEPT !.clock = @ + 1]
    /\ UNCHANGED notCacheVars

InitCache ==
    /\ UtilIdle
    /\ GeoIdle /\ TravelInit /\ OllamaInit /\ DupIdle
    /\ HubInit /\ WorkersOff /\ AdmitInit /\ LoadInit /\ ImportInit

NextCache ==
    \/ \E k \in CacheKeyNames : CacheGet(k)
    \/ \E k \in CacheKeyNames, v \in CacheValues, ttl \in TtlInputs :
           CacheSet(k, v, ttl)
    \/ \E k \in CacheKeyNames : CacheDelete(k)
    \/ CacheClear
    \/ CleanupExpired
    \/ CacheGetInfo
    \/ CacheGetStats
    \/ CacheTick

SpecCache == InitCache /\ [][NextCache]_vars

(***************************************************************************)
(* AIConfig.clean_caption (config/ai_config.py).  A caption is the          *)
(* sequence of its characters; the regular expressions of the default      *)
(* post_processing configuration are written out as scans.                 *)
(***************************************************************************)
Chars == {"a", " ", ".", "*", "_", "#", "\n"}
Whitespace == {" ", "\n"}

RECURSIVE StringsOfLen(_)
StringsOfLen(n) ==
    IF n = 0 THEN { << >> }
    ELSE { << c >> \o t : c \in Chars, t \in StringsOfLen(n - 1) }

Captions == UNION { StringsOfLen(n) : n \in 0..MaxCaptionInput }

Drop(s, n) == SubSeq(s, n + 1, Len(s))

\* re.sub('^#.*$', '', caption, flags=re.MULTILINE): a line that starts
\* with # loses everything up to its line break
RECURSIVE HashScan(_, _, _)
HashScan(s, atStart, skipping) ==
    IF s = << >> THEN << >>
    ELSE IF Head(s) = "\n" THEN << "\n" >> \o HashScan(Tail(s), TRUE, FALSE)
    ELSE IF skipping \/ (atStart /\ Head(s) = "#")
         THEN HashScan(Tail(s), FALSE, TRUE)
    ELSE << Head(s) >> \o HashScan(Tail(s), FALSE, FALSE)

RemoveHashLines(s) == HashScan(s, TRUE, FALSE)

RECURSIVE RunLen(_, _)
RunLen(s, chars) ==
    IF s = << >> \/ Head(s) \notin chars THEN 0
    ELSE 1 + RunLen(Tail(s), chars)

\* re.sub('\*{2,}', '', caption) and re.sub('_{2,}', '', caption): every
\* maximal run of two or more of the character is removed
RECURSIVE RemoveRuns(_, _)
RemoveRuns(s, ch) ==
    IF s = << >> THEN << >>
    ELSE IF RunLen(s, {ch}) >= 2
         THEN RemoveRuns(Drop(s, RunLen(s, {ch})), ch)
    ELSE << Head(s) >> \o RemoveRuns(Tail(s), ch)

\* the loop over post_config['remove_patterns'], in the configured order
RemovePatterns(s) == RemoveRuns(RemoveRuns(RemoveHashLines(s), "*"), "_")

\* re.sub(r'\s+', ' ', caption)
RECURSIVE CollapseWhitespace(_)
CollapseWhitespace(s) ==
    IF s = << >> THEN << >>
    ELSE IF Head(s) \in Whitespace
         THEN << " " >> \o CollapseWhitespace(Drop(s, RunLen(s, Whitespace)))
    ELSE << Head(s) >> \o CollapseWhitespace(Tail(s))

\* str.strip()
RECURSIVE StripRight(_)
StripRight(s) ==
    IF s # << >> /\ s[Len(s)] \in Whitespace
    THEN StripRight(SubSeq(s, 1, Len(s) - 1)) ELSE s

Strip(s) == StripRight(Drop(s, RunLen(s, Whitespace)))

\* caption.split('.')
RECURSIVE SplitAt(_, _, _)
SplitAt(s, sep, cur) ==
    IF s = << >> THEN << cur >>
    ELSE IF Head(s) = sep THEN << cur >> \o SplitAt(Tail(s), sep, << >>)
    ELSE SplitAt(Tail(s), sep, Append(cur, Head(s)))

\* '. '.join(parts)
RECURSIVE JoinWith(_, _)
JoinWith(parts, sep) ==
    IF parts = << >> THEN << >>
    ELSE IF Len(parts) = 1 THEN parts[1]
    ELSE parts[1] \o sep \o JoinWith(Tail(parts), sep)

\* sentences[:max_sentences]
FirstN(parts, n) == SubSeq(parts, 1, IF Len(parts) < n THEN Len(parts) ELSE n)

\* the length limit: '. '.join(sentences[:max_sentences]) + '.'
LimitLength(s) ==
    IF Len(s) > MaxCaptionLength
    THEN JoinWith(FirstN(SplitAt(s, ".", << >>), MaxSentencesIfTooLong),
                  << ".", " " >>) \o << "." >>
    ELSE s

\* AIConfig.clean_caption; forbidden_words is empty in the default
\* configuration, so that loop removes nothing
CleanCaption(s) ==
    IF s = << >> THEN s
    ELSE LimitLength(Strip(CollapseWhitespace(RemovePatterns(s))))

\* a caller passes a caption to clean_caption
CleanStart(caption) ==
    /\ cleaner.pc = "idle"
    /\ cleaner' = [cleaner EXCEPT !.pc = "start", !.caption = caption]
    /\ UNCHANGED notCleanVars

\* clean_caption runs on the caption
CleanOnce ==
    /\ cleaner.pc = "start"
    /\ cleaner' = [cleaner EXCEPT !.pc = "once",
                                  !.once = CleanCaption(cleaner.caption)]
    /\ UNCHANGED notCleanVars

\* clean_caption runs on its own result
CleanTwice ==
    /\ cleaner.pc = "once"
    /\ cleaner' = [cleaner EXCEPT !.pc = "done",
                                  !.twice = CleanCaption(cleaner.once)]
    /\ UNCHANGED notCleanVars

\* both results have been returned
CleanReturn ==
    /\ cleaner.pc = "done"
    /\ cleaner' = [pc |-> "idle", caption |-> << >>, once |-> << >>,
                   twice |-> << >>]
    /\ UNCHANGED notCleanVars

InitClean ==
    /\ UtilIdle
    /\ GeoIdle /\ TravelInit /\ OllamaInit /\ DupIdle
    /\ HubInit /\ WorkersOff /\ AdmitInit /\ LoadInit /\ ImportInit

NextClean ==
    \/ cleaner.pc = "idle" /\ \E c \in Captions : CleanStart(c)
    \/ CleanOnce
    \/ CleanTwice
    \/ CleanReturn

SpecClean == InitClean /\ [][NextClean]_vars

(***************************************************************************)
(* Temp image files: ImageProcessor.save_base64_image, called by every      *)
(* request that carries or downloads an image, and the caller's unlink     *)
(***************************************************************************)
\* a request thread enters save_base64_image; decoding, the size check or
\* the format check fail (None is returned) or pass
SaveDecode(t, asset_id, valid) ==
    /\ saver.call[t].pc = "idle"
    /\ saver' = [saver EXCEPT
           !.call[t] = [InitSaveCall EXCEPT
                           !.pc = IF valid THEN "decoded" ELSE "failed",
                           !.asset_id = asset_id]]
    /\ UNCHANGED notSaverVars

\* timestamp = int(time.time() * 1000); filename = asset_id_timestamp.format
SaveName(t) ==
    /\ saver.call[t].pc = "decoded"
    /\ saver' = [saver EXCEPT
           !.call[t].pc = "named",
           !.call[t].timestamp = saver.clock,
           !.call[t].path = TempPath(saver.call[t].asset_id, saver.clock)]
    /\ UNCHANGED notSaverVars

\* open(temp_file, 'wb') creates or truncates the file; the path is returned
SaveWrite(t) ==
    /\ saver.call[t].pc = "named"
    /\ saver' = [saver EXCEPT
           !.call[t].pc = "saved",
           !.files = @ \cup {saver.call[t].path}]
    /\ UNCHANGED notSaverVars

\* the request ends: its handler unlinks the path it was given, if any
SaveRelease(t) ==
    /\ saver.call[t].pc \in {"saved", "failed"}
    /\ saver' = [saver EXCEPT
           !.call[t] = InitSaveCall,
           !.files = @ \ {saver.call[t].path}]
    /\ UNCHANGED notSaverVars

\* a millisecond passes
SaveTick ==
    /\ saver.clock < MaxMillis
    /\ saver' = [saver EXCEPT !.clock = @ + 1]
    /\ UNCHANGED notSaverVars

InitSave ==
    /\ UtilIdle
    /\ GeoIdle /\ TravelInit /\ OllamaInit /\ DupIdle
    /\ HubInit /\ WorkersOff /\ AdmitInit /\ LoadInit /\ ImportInit

NextSave ==
    \/ \E t \in SaveThreads, a \in SaveAssets, valid \in BOOLEAN :
           SaveDecode(t, a, valid)
    \/ \E t \in SaveThreads : SaveName(t)
    \/ \E t \in SaveThreads : SaveWrite(t)
    \/ \E t \in SaveThreads : SaveRelease(t)
    \/ SaveTick

SpecSave == InitSave /\ [][NextSave]_vars

(***************************************************************************)
(* The database handle of GeoService: connect_db, the queries of            *)
(* get_location_info on self.cursor, and disconnect_db in its finally       *)
(* clause, for lookups that run on the one GeoService of the application   *)
(***************************************************************************)
\* get_location_info reaches connect_db; mysql.connector.connect returns a
\* new connection, stored in self.connection, or raises, and the outer
\* except clause leads to the finally clause
DbConnect(t, up) ==
    /\ geoDb.call[t].pc = "idle"
    /\ geoDb.opened < MaxHandles
    /\ IF up
       THEN geoDb' = [geoDb EXCEPT
                !.opened = @ + 1,
                !.connection = geoDb.opened + 1,
                !.call[t] = [InitDbCall EXCEPT !.pc = "cursor",
                                               !.mine = geoDb.opened + 1]]
       ELSE geoDb' = [geoDb EXCEPT
                !.call[t] = [InitDbCall EXCEPT !.pc = "disconnect"]]
    /\ UNCHANGED notGeoDbVars

\* self.cursor = self.connection.cursor(dictionary=True): a cursor of the
\* connection that self.connection names now
DbCursor(t) ==
    /\ geoDb.call[t].pc = "cursor"
    /\ geoDb' = [geoDb EXCEPT !.cursor = geoDb.connection,
                              !.call[t].pc = "query"]
    /\ UNCHANGED notGeoDbVars

\* one of the _search_* methods: self.cursor.execute and fetchall on the
\* cursor that self.cursor names now; on a closed cursor the call raises
\* and the except clause of its section goes on without the rows
DbQuery(t) ==
    /\ geoDb.call[t].pc = "query"
    /\ geoDb.call[t].queries < MaxQueries
    /\ geoDb' = [geoDb EXCEPT
           !.call[t].queries = @ + 1,
           !.call[t].ran_on = geoDb.cursor,
           !.call[t].failed = @ \/ geoDb.cursor \in geoDb.closed]
    /\ UNCHANGED notGeoDbVars

\* the last section has run
DbQueriesDone(t) ==
    /\ geoDb.call[t].pc = "query"
    /\ geoDb.call[t].queries = MaxQueries
    /\ geoDb' = [geoDb EXCEPT !.call[t].pc = "disconnect"]
    /\ UNCHANGED notGeoDbVars

\* finally: disconnect_db closes the cursor and the connection that
\* self.cursor and self.connection name now, and leaves both names set
DbDisconnect(t) ==
    /\ geoDb.call[t].pc = "disconnect"
    /\ geoDb' = [geoDb EXCEPT
           !.closed = @ \cup ({geoDb.cursor, geoDb.connection} \ {NoHandle}),
           !.call[t].pc = "done"]
    /\ UNCHANGED notGeoDbVars

\* the lookup returns; the thread may start another one
DbReturn(t) ==
    /\ geoDb.call[t].pc = "done"
    /\ geoDb' = [geoDb EXCEPT !.call[t] = InitDbCall]
    /\ UNCHANGED notGeoDbVars

InitGeoDb ==
    /\ UtilIdle
    /\ GeoIdle /\ TravelInit /\ OllamaInit /\ DupIdle
    /\ HubInit /\ WorkersOff /\ AdmitInit /\ LoadInit /\ ImportInit

NextGeoDb ==
    \/ \E t \in DbThreads, up \in BOOLEAN : DbConnect(t, up)
    \/ \E t \in DbThreads : DbCursor(t)
    \/ \E t \in DbThreads : DbQuery(t)
    \/ \E t \in DbThreads : DbQueriesDone(t)
    \/ \E t \in DbThreads : DbDisconnect(t)
    \/ \E t \in DbThreads : DbReturn(t)

SpecGeoDb == InitGeoDb /\ [][NextGeoDb]_vars

(***************************************************************************)
(* Claims                                                                  *)
(***************************************************************************)

\* C1: CreateConnection(requestId) on an id that already has a connection
\* closes it, registers a new one and returns: the caller that found the
\* existing connection is never left waiting for the hub lock it holds.
C1_CreateReplacesAndReturns ==
    \A r \in Readers : reader[r].pc = "close_in_create" => lock # r

\* C2: for every request id the events contain exactly one terminal event:
\* never more than one on a stream or from the worker, and exactly one from
\* the worker once it has finished.
C2_ExactlyOneTerminal ==
    /\ \A r \in Readers : CountTerminal(out[r]) <= 1
    /\ \A rid \in RequestIds :
         /\ CountTerminal(emitted[rid]) <= 1
         /\ WorkerDone(rid) => CountTerminal(emitted[rid]) = 1

\* C3: when no request handler is executing, the admission counter equals
\* the number of in-flight requests, which is then 0.
C3_CounterMatchesInFlight ==
    ((\A h \in 1..NumHandlers : handler[h].pc = "idle") /\ asyncRunning = 0)
        => active_requests = 0

\* C4: the number of requests admitted and executing at the same time, on
\* the sync and the async endpoint together, never exceeds the ceiling.
C4_CeilingRespected == Executing <= MAX_CONCURRENT_REQUESTS

\* C5: Reap(maxIdleSecs) closes and removes every connection idle for longer
\* than the threshold, leaves the others registered, and returns: the reaper
\* never waits for the hub lock it holds, and after its return no connection
\* it found stale is still the registered, active one.
C5_ReapClosesStaleAndReturns ==
    /\ reaper.pc = "close_in_reap" => lock # ReaperId
    /\ reaper.pc = "done" =>
         \A rid \in reaper.stale : sse.connections[rid] = 0

\* C6: when the pipeline of an async request fails with an orchestrator-
\* internal fault, an error event with an error_type is emitted and no
\* complete event is emitted for that request.
C6_FaultEmitsErrorOnly ==
    \A rid \in RequestIds :
        (WorkerDone(rid) /\ worker[rid].fault) =>
            /\ \E i \in 1..Len(emitted[rid]) :
                   emitted[rid][i].event = "error" /\ emitted[rid][i].tag # ""
            /\ ~ HasEvent(emitted[rid], "complete")

\* C7: loading of the embedding model is single-flight: at most one thread
\* performs the load at any time.
C7_SingleFlight ==
    Cardinality({ t \in 1..NumLoaders : loader[t] = "loading" }) <= 1

\* C8: a worker's first emit for an id that has no connection
\* creates the connection, so once a worker has emitted for an id whose
\* stream was never opened, the id has a connection.
C8_WorkerEmitCreates ==
    \A rid \in RequestIds :
        (emitted[rid] # << >> /\ \A r \in Readers : reader[r].pc = "idle")
            => sse.connections[rid] # 0

\* C9: after a request for a new country ran an import in which at least
\* one dataset succeeded, country_imports holds exactly one row for that
\* country and a later request for the same country runs no import.
C9_ImportRecordedOnce ==
    \A c \in Countries :
        (importer[c].pc = "idle" /\ importer[c].succeeded) =>
            /\ country_imports[c] = 1
            /\ importer[c].imports_after = 0

\* C10: every temp image file materialized for a request is deleted before
\* the handling of that request ends, on every exit path.
C10_TempFileReleased ==
    /\ \A rid \in RequestIds :
         WorkerDone(rid) => worker[rid].temp \notin tempFiles
    /\ \A h \in 1..NumHandlers :
         handler[h].pc = "idle" => TempPath(SyncAsset(h), now) \notin tempFiles

\* C11: every GeoLocation returned by Lookup has a confidence between 0 and
\* 1 (0 and 10 tenths), whatever sources contributed.
C11_ConfidenceInRange ==
    \A t \in GeoThreads :
        (lk[t].pc = "done" /\ ~ lk[t].raised) =>
            /\ lk[t].result.confidence_score >= 0
            /\ lk[t].result.confidence_score <= 10

\* C12: for valid coordinates Lookup never raises, and when the database is
\* unavailable it returns a GeoLocation holding only the coordinates, with
\* confidence 0.1.
C12_NeverRaisesFallback ==
    \A t \in GeoThreads :
        (lk[t].pc = "done" /\ lk[t].valid) =>
            /\ ~ lk[t].raised
            /\ lk[t].result # NoLocation
            /\ lk[t].dbDown =>
                  lk[t].result = [NewLocation EXCEPT
                                     !.formatted_address = "coords",
                                     !.confidence_score = 1]

\* a lookup for valid coordinates has returned while the database was down
C12_Witness ==
    \E t \in GeoThreads :
        /\ lk[t].pc = "done" /\ lk[t].valid /\ lk[t].dbDown
        /\ lk[t].result.confidence_score = 1

\* C13: any two consecutive requests to the reverse-geocoding API are at
\* least 1.1 s apart, whichever component sends them.
C13_RequestsSpaced == nominatimLog.minGap >= RateLimit

\* C20: data_sources of a returned GeoLocation holds the tag of a source if
\* and only if that source contributed a non-empty field or list entry.
C20_SourcesIffContributed ==
    \A t \in GeoThreads :
        (lk[t].pc = "done" /\ ~ lk[t].raised) =>
            LET L == lk[t].result IN
            /\ ("geonames" \in L.data_sources) <=> (L.geonames_all > 0)
            /\ ("unesco" \in L.data_sources) <=> (L.unesco_sites > 0)
            /\ ("cultural_db" \in L.data_sources) <=>
                   ("cultural_db" \in L.cultural_sites)
            /\ ("osm_db" \in L.data_sources) <=> (L.osm_pois > 0)
            /\ ("nominatim" \in L.data_sources) <=>
                   (L.formatted_address = "nominatim")
            /\ ("overpass_api" \in L.data_sources) <=> (L.overpass_pois > 0)

C15_StageFailureWarns ==
    \A rid \in RequestIds :
        (WorkerDone(rid) /\ worker[rid].stage_failed /\ ~ worker[rid].fault)
            => /\ HasEvent(emitted[rid], "warning")
               /\ emitted[rid] # << >>
               /\ emitted[rid][Len(emitted[rid])].event = "complete"

\* C16: in a travel-enrichment call, when the primary model does not answer
\* and the secondary does, the stage uses the secondary; the stage returns
\* null only when neither model answers.
C16_TravelFallsBack ==
    enrich.pc = "done" =>
        /\ (~ enrich.up["primary"] /\ enrich.up["fallback"]) =>
               (enrich.result = "text" /\ enrich.model = "fallback")
        /\ enrich.result = "null" =>
               (~ enrich.up["primary"] /\ ~ enrich.up["fallback"])

\* C17: the model client makes at most MaxRetries attempts per call and
\* goes on to another attempt only after a transient failure, never after a
\* malformed or an empty reply.
C17_RetryOnlyTransient ==
    /\ ollama.attempts <= MaxRetries
    /\ ollama.retried_after \subseteq TransientOutcomes

\* C18: every duplicate group returned by FindDuplicates has exactly one
\* member with is_primary = true.
C18_OnePrimaryPerGroup ==
    dup.pc = "done" =>
        \A k \in 1..Len(dup.groups) :
            Cardinality({ m \in Members(dup.groups[k]) :
                            dup.is_primary[m] }) = 1

\* a call has returned a group of three images
C18_Witness ==
    /\ dup.pc = "done"
    /\ \E k \in 1..Len(dup.groups) : Len(dup.groups[k]) = 3

\* C19: in every returned group the primary member's quality_score is at
\* least the quality_score of every other member.
C19_PrimaryHasBestScore ==
    dup.pc = "done" =>
        \A k \in 1..Len(dup.groups) :
            \A m \in Members(dup.groups[k]), o \in Members(dup.groups[k]) :
                dup.is_primary[m] =>
                    dup.quality_score[m] >= dup.quality_score[o]

\* a call has returned a group whose members have different scores and
\* whose primary is not the seed image
C19_Witness ==
    /\ dup.pc = "done"
    /\ \E k \in 1..Len(dup.groups) :
          \E m \in Members(dup.groups[k]), o \in Members(dup.groups[k]) :
              /\ dup.is_primary[m]
              /\ o < m
              /\ dup.quality_score[m] > dup.quality_score[o]

\* C21: Reload() replaces the prompt configuration atomically: whatever a
\* reader call running concurrently with Reload has observed of the
\* configuration comes from one snapshot, the prior or the new one, never
\* from both.
C21_ReloadAtomic ==
    \A r \in ConfigReaders :
        \A i, j \in 1..Len(aicfg.reader[r].seen) :
            aicfg.reader[r].seen[i] = aicfg.reader[r].seen[j]

HasPartial(s, type) ==
    \E i \in 1..Len(s) : s[i].event = "partial" /\ s[i].tag = type

\* C22: for an async caption request submitted without latitude whose image
\* is readable and whose stages all succeed, the events of the request carry
\* connected, no geolocation and no travel_enrichment partial, a partial of
\* type raw_caption, no error, and end with complete.
C22_NoGpsStream ==
    \A rid \in RequestIds :
        (/\ WorkerDone(rid)
         /\ worker[rid].kind = "handler"
         /\ worker[rid].gps = "none"
         /\ worker[rid].img = "ok"
         /\ worker[rid].svc
         /\ ~ worker[rid].stage_failed)
            => /\ HasEvent(emitted[rid], "connected")
               /\ ~ HasPartial(emitted[rid], "geolocation")
               /\ ~ HasPartial(emitted[rid], "travel_enrichment")
               /\ HasPartial(emitted[rid], "raw_caption")
               /\ ~ HasEvent(emitted[rid], "error")
               /\ emitted[rid] # << >>
               /\ emitted[rid][Len(emitted[rid])].event = "complete"

\* C23: when Set inserts a new key into a full cache, exactly one entry is
\* evicted and it is the least recently used one, a Get hit and a Set both
\* counting as a use of the key.
C23_EvictsLeastRecentlyUsed ==
    (cacheMgr.last.op = "set" /\ cacheMgr.last.full_new)
        => /\ Len(cacheMgr.last.evicted) = 1
           /\ cacheMgr.last.evicted[1] = Head(cacheMgr.last.used_before)

\* a new key has been set into a full cache whose oldest entry had been
\* used again by a Get hit
C23_Witness ==
    /\ cacheMgr.last.op = "set"
    /\ cacheMgr.last.full_new
    /\ cacheMgr.stats.hits > 0
    /\ Len(cacheMgr.last.evicted) = 1
    /\ cacheMgr.last.evicted[1] # cacheMgr.last.key

\* C24: Set(k, v) followed by Get(k) before the entry's TTL has elapsed
\* returns v, provided k was not deleted, overwritten or evicted in between.
C24_GetReturnsSet ==
    cacheMgr.last.op = "get" =>
        \A e \in cacheMgr.live :
            (e.key = cacheMgr.last.key /\ cacheMgr.last.at - e.at < e.ttl)
                => cacheMgr.last.returned = e.value

\* a Get some time after the Set has returned the value that was set
C24_Witness ==
    /\ cacheMgr.last.op = "get"
    /\ cacheMgr.last.returned # NoValue
    /\ \E e \in cacheMgr.live :
           /\ e.key = cacheMgr.last.key
           /\ e.at < cacheMgr.last.at
           /\ cacheMgr.last.returned = e.value

\* C25: CleanCaption is idempotent: CleanCaption(CleanCaption(s)) equals
\* CleanCaption(s) for every caption s, also when s exceeds the maximum
\* length and is cut down to the maximum number of sentences.
C25_CleanIdempotent ==
    cleaner.pc = "done" => cleaner.twice = cleaner.once

\* C26: in FindDuplicates, the similarity value compared with the threshold
\* for a pair of input images (i, j) is the cosine similarity of the
\* embeddings of exactly those two images, also when some input images
\* failed to encode and were left out of the similarity matrix.
C26_SimilarityOfThePair ==
    \A c \in dup.compared : c.of = << c.i, c.j >>

\* C30: in duplicate grouping, for a seed image i and a not yet grouped
\* image j > i (both dated, every image encoded), j joins i's group if and
\* only if similarity(i, j) >= threshold and either no time window is given
\* or |t_i - t_j| <= the window in hours.
C30_JoinsIffSimilarAndClose ==
    (dup.pc \in {"grouped", "done"} /\ dup.encoded = AllEncoded) =>
        \A c \in dup.compared :
            (dup.date[c.i] # NoDate /\ dup.date[c.j] # NoDate) =>
                (c.joined <=>
                    /\ dup.similar[<< c.i, c.j >>]
                    /\ \/ ~ WindowGiven(dup.time_window_hours)
                       \/ Abs(dup.date[c.i] - dup.date[c.j])
                              <= dup.time_window_hours)

\* C27: when a reader loop exits, the close it performs removes only the
\* connection that this reader itself created: once reader r1 has left its
\* loop and a later stream open r2 for the same request id is under way or
\* being read, the connection registered under the id is the newer one and
\* it is active.
C27_NewerConnectionStays ==
    \A r1, r2 \in Readers :
        (/\ r1 # r2
         /\ reader[r1].rid = reader[r2].rid
         /\ reader[r1].conn # 0
         /\ reader[r1].pc \in {"finally", "done"}
         /\ reader[r2].pc \in {"close_in_create", "start", "loop"}
         /\ \/ reader[r2].pc = "close_in_create"
            \/ reader[r2].conn > reader[r1].conn)
            => LET c == sse.connections[reader[r2].rid]
               IN /\ c # 0
                  /\ c # reader[r1].conn
                  /\ sse.objs[c].is_active

\* C28: the embedding model is never unloaded (its model reference cleared)
\* while an encode call that has passed the load check is still using it.
C28_NoUnloadWhileEncoding ==
    [][(\E t \in 1..NumLoaders : loader[t] = "ready") /\ clip.clip_model
           => clip'.clip_model]_vars

\* C29: the reader loop emits a heartbeat exactly when 30 consecutive polls
\* have returned empty since the last real event or the last heartbeat: a
\* poll that times out writes a heartbeat if and only if it is the 30th
\* empty poll in a row.
C29_HeartbeatEvery30EmptyPolls ==
    [][\A r \in DOMAIN reader :
           reader[r].pc = "loop" /\ reader'[r].polls = reader[r].polls + 1
               => (out'[r] = Append(out[r], EvHeartbeat)
                       <=> reader[r].empty_run + 1 = HeartbeatEvery)]_vars

\* C31: when the quality service is available, every member of every
\* duplicate group is analyzed by the service on the member's own image
\* bytes, and its quality_score is the overall score the service returned.
C31_MembersAnalyzedOnOwnBytes ==
    dup.pc = "done" /\ dup.quality_service
        => \A i \in AllMembers(dup.groups) :
               /\ dup.analyzed_on[i] = i
               /\ dup.returned[i] >= 0
                      => dup.quality_score[i] = dup.returned[i]

\* C32: for an async caption request with GPS present whose stages all
\* succeed, the events of the request carry progress{geolocation, 35}
\* followed by a partial of type geolocation, both after the image_analysis
\* partial and before any caption event.
C32_GeoProgressThenPartial ==
    \A rid \in RequestIds :
        (/\ WorkerDone(rid)
         /\ worker[rid].kind = "handler"
         /\ worker[rid].gps = "nonzero"
         /\ worker[rid].img = "ok"
         /\ worker[rid].svc
         /\ ~ worker[rid].stage_failed
         /\ ~ worker[rid].fault)
            => \E h, i, j \in 1..Len(emitted[rid]) :
                   /\ h < i /\ i < j
                   /\ emitted[rid][h] = EvPartial("image_analysis")
                   /\ emitted[rid][i] = EvProgress("geolocation", 35)
                   /\ emitted[rid][j] = EvPartial("geolocation")
                   /\ \A c \in 1..Len(emitted[rid]) :
                          emitted[rid][c].tag
                              \in {"caption_generation", "raw_caption"}
                              => j < c

\* C33: when the client disconnects from the stream, that connection is
\* closed and removed while the background worker runs to completion: once
\* a reader has left without having written a terminal event, its
\* connection is closed and no longer registered, and the worker of the
\* request has not died of an error.
C33_DisconnectLeavesWorkerRunning ==
    \A r \in Readers :
        (/\ reader[r].pc = "done"
         /\ reader[r].conn # 0
         /\ CountTerminal(out[r]) = 0)
            => /\ ~ sse.objs[reader[r].conn].is_active
               /\ sse.connections[reader[r].rid] # reader[r].conn
               /\ worker[reader[r].rid].pc # "crashed"

\* C34: every use of the embedding model resets its idle timer, and a loaded
\* model is unloaded only once the idle time has elapsed without any use
\* since the last reset: a call that passes the load check leaves a timer
\* waiting that was set at that moment, and the model reference is cleared
\* only when last_used lies at least AutoUnloadAfter back.
C34_TimerResetOnUseUnloadWhenIdle ==
    [][/\ \A t \in 1..NumLoaders :
             loader[t] # "ready" /\ loader'[t] = "ready"
                 => /\ clip'.last_used = now
                    /\ clip'.unload_timer =
                           [due |-> now + AutoUnloadAfter, waiting |-> TRUE]
       /\ clip.clip_model /\ ~ clip'.clip_model
             => now - clip.last_used >= AutoUnloadAfter]_vars

\* C35: Materialize writes each image to a path that no other in-flight
\* request uses: two requests that hold a path returned by
\* save_base64_image at the same time, even for the same asset id, hold
\* different paths.
C35_PathsUnique ==
    \A t1, t2 \in SaveThreads :
        (/\ t1 # t2
         /\ saver.call[t1].pc = "saved"
         /\ saver.call[t2].pc = "saved")
            => saver.call[t1].path # saver.call[t2].path

\* C36: every public operation of the request cache, get_info included,
\* returns and leaves the mutex released: no operation waits for a mutex
\* that its own thread already holds.
C36_NoSelfWaitOnCacheLock ==
    cacheMgr.admin = "stats_in_info" => cacheMgr.lock # "admin"

\* C37: a GeoLocation produced by the database-error fallback path is not
\* stored in the lookup cache: when a lookup has returned the fallback, the
\* cache entry of its coordinates is not that fallback, so a later lookup
\* of the same coordinates is not answered with it.
C37_FallbackNotCached ==
    \A t \in GeoThreads :
        (lk[t].pc = "done" /\ lk[t].dbDown)
            => geoSvc.cache[lk[t].key] # lk[t].result

\* C38: the orchestrator treats GPS as present whenever both latitude and
\* longitude are supplied, including when one of them equals 0: once the
\* worker of such a request is past the geo step, the step has run, that is
\* the events of the request hold its progress event (35 percent).
C38_ZeroCoordinateIsGps ==
    \A rid \in RequestIds :
        (/\ worker[rid].gps \in {"zero", "nonzero"}
         /\ worker[rid].pc \in {"travel", "caption", "complete"}
         /\ Idle(rid))
            => \E i \in 1..Len(emitted[rid]) :
                   /\ emitted[rid][i].event = "progress"
                   /\ emitted[rid][i].n = 35

\* C39: on every SSE stream, the connected event is written before any
\* other event of that request: whatever a reader has written to its client
\* starts with connected, and every event of another kind comes after it.
C39_ConnectedFirst ==
    \A r \in Readers :
        out[r] # << >> =>
            /\ out[r][1] = EvConnected
            /\ \A i \in 1..Len(out[r]) :
                   out[r][i].event # "connected" => i > 1

\* a stream on which the connected event was followed by an event of the
\* worker
C39_Witness ==
    \E r \in Readers :
        /\ Len(out[r]) >= 2
        /\ out[r][1] = EvConnected
        /\ out[r][2].event \in {"progress", "error"}

\* C40: two lookups running concurrently on the same geographic resolver do
\* not interfere through the database handle: while a lookup has connected
\* and has not finished its queries, the resolver's connection and cursor
\* are the ones that lookup opened, and they are not closed.
C40_HandleNotDisturbed ==
    \A t \in DbThreads :
        geoDb.call[t].pc = "query" =>
            /\ geoDb.connection = geoDb.call[t].mine
            /\ geoDb.cursor = geoDb.call[t].mine
            /\ geoDb.call[t].mine \notin geoDb.closed

====
